---- MODULE Spec2Model ----
(***************************************************************************)
(* A model of the codebase-understanding agent:                            *)
(*   - the agent graph (planner -> retriever -> synthesizer -> verifier    *)
(*     -> retriever | finalizer -> END) of agent/graph.py and its nodes,   *)
(*   - the corpus store (SQLite metadata + FTS index, vector collections)  *)
(*     written by indexing/pipeline.py and the deletion service.           *)
(*   - the functions of the chunker, the context packer, the hybrid        *)
(*     retrieval and the citation extractor, each applied to drawn inputs. *)
(* Oracle texts are represented by what the JSON parser makes of them.     *)
(***************************************************************************)
EXTENDS Integers, Sequences, FiniteSets, TLC

\* ------------------------------------------------------------------ bounds

\* chunk ids of the corpus the retrieval oracle answers from: 1..NumChunks
NumChunks == 20
\* largest value of settings.max_retrieval_iterations that is explored
MaxIterationsSetting == 3
\* ingestion requests (background tasks) that are explored
NumJobs == 2
\* delete requests that are explored
MaxDeletes == 1
\* lines of a file handed to the size chunker: 1..MaxLines
MaxLines == 4
\* lines of a chunk handed to the context packer: 1..MaxPackLines
MaxPackLines == 3
\* results of one search branch handed to the fusion: 0..MaxHits
MaxHits == 2

\* citations written in one drawn answer
MaxCitations == 2

\* definitions of one file that the AST strategy makes chunks of
MaxDefinitions == 3

\* words of a text handed to count_tokens
MaxWords == 20

\* ------------------------------------------------------- program constants

DEFAULT_MAX_CITATIONS == 15
DEFAULT_MAX_CHUNKS_PER_QUERY == 12
\* citation_service.py: "Use top 5 chunks as citations"
TopChunksCited == 5
\* core/constants.py
MIN_CHUNK_SIZE_TOKENS == 50
\* context_optimizer.py: the words of the truncation marker
MarkerWords == 7
\* retrieval_tools.py: deduplicate_by_file_span(results, max_chunks=12)
DEDUP_MAX_CHUNKS == 12

QUESTION == "question"
\* a JSON null where a query string is expected
NullItem == "<null>"

NO_CODE_MESSAGE == "No relevant code was found to answer this question."
ERROR_GENERATING == "Error generating answer"
HF_ERROR_TEXT == "Error: Hugging Face API error"
FALLBACK_REASONING == "Using fallback plan due to parsing error"
DIRECT_REASONING == "Direct search for question keywords"
SNIPPET_UNAVAILABLE == "[Code snippet unavailable]"

\* ------------------------------------------------------------ sequences

Range(s) == {s[i] : i \in 1..Len(s)}

Take(s, n) == IF Len(s) <= n THEN s ELSE SubSeq(s, 1, n)

Run(a, n) == [i \in 1..n |-> a + i - 1]

RECURSIVE Flatten(_)
Flatten(lists) ==
  IF lists = <<>> THEN <<>> ELSE Head(lists) \o Flatten(Tail(lists))

\* ------------------------------------------------------------------ state

VARIABLES
  pc,                        \* the node the graph runs next; "END"; "failed"
  max_retrieval_iterations,  \* settings.max_retrieval_iterations
  plan,
  retrieved_chunks,          \* chunk ids, in insertion order
  retrieval_iteration,
  draft_answer,
  citations,
  verification_result,
  final_answer,
  reasoning_trace,
  stage_log,                 \* history: the nodes that ran, in order
  new_chunks,                \* history: len(all_chunks) of the last pass
  last_outcome               \* history: the oracle call of the last node

agentVars == <<pc, max_retrieval_iterations, plan, retrieved_chunks,
               retrieval_iteration, draft_answer, citations,
               verification_result, final_answer, reasoning_trace,
               stage_log, new_chunks, last_outcome>>

\* The corpus store, for the one repository id REPO_ID.
VARIABLES
  repos,               \* table repos: the repo ids that have a row
  chunks,              \* table chunks: rows [rowid, chunk_id, repo_id, chunk_text]
  chunks_fts,          \* FTS index: postings <<rowid, term>>
  chunks_fts_docsize,  \* FTS shadow table: the rowids that were indexed
  collections,         \* vector store: the repo ids that have a collection
  documents,           \* vector store: entries [repo_id, chunk_id, chunk_text]
  jobs,                \* the ingestion tasks
  deleter,             \* the delete handler's position
  deletes,             \* delete requests so far
  deleted              \* history: a delete reported success, and no
                       \* ingestion was requested since

storeVars == <<repos, chunks, chunks_fts, chunks_fts_docsize, collections,
               documents, jobs, deleter, deletes, deleted>>

\* One call of a function of the indexing, packing or retrieval code.
VARIABLES
  call,                \* the function and its arguments; NoFunction
  returned             \* what the call returned; NotReturned before

fnVars == <<call, returned>>

vars == <<agentVars, storeVars, fnVars>>

NoFunction == [fn |-> "none"]
NotReturned == "<not returned>"

\* No function call of its own is looked at.
FnIdle == call = NoFunction /\ returned = NotReturned

\* ------------------------------------------------------------ the oracle

\* A Python dict of field tags: a function from the keys that are present.
EmptyDict == [k \in {} |-> "absent"]

\* What json.loads makes of a text: a dict, another JSON value, or nothing.
\* has_keys: the value is a list or string in which every key looked up by
\* the caller is found by Python's "in" (a list of the key names).
NotJson == [type |-> "none", dict |-> EmptyDict, has_keys |-> FALSE]
JsonDict(d) == [type |-> "dict", dict |-> d, has_keys |-> FALSE]
JsonOther(h) == [type |-> "other", dict |-> EmptyDict, has_keys |-> h]

\* The text of an oracle reply: its characters, what it parses to, and
\* whether it carries citations ("explicit": [path:s-e]; "none").
Text(raw, parsed, cites) == [raw |-> raw, parsed |-> parsed, cites |-> cites]

ErrorText == Text(HF_ERROR_TEXT, NotJson, "none")

\* What one HTTP call of the chat backend ends in.
OracleOutcome(contents) ==
  {[kind |-> "ok", content |-> c] : c \in contents}
    \cup {[kind |-> k, content |-> ErrorText] :
            k \in {"http_error", "timeout", "bad_payload"}}

\* HuggingFaceChatLLM._generate under HuggingFaceLLMService.invoke_text:
\* HTTP errors and timeouts come back as an "Error: ..." message text; any
\* other exception (an unreadable payload) is raised as LLMError.
invoke_text(outcome) ==
  CASE outcome.kind = "ok" -> [raised |-> FALSE, text |-> outcome.content]
    [] outcome.kind \in {"http_error", "timeout"} ->
         [raised |-> FALSE, text |-> ErrorText]
    [] OTHER -> [raised |-> TRUE, text |-> ErrorText]

\* What the history keeps of an oracle call.
Called(outcome) ==
  [kind |-> outcome.kind, json |-> outcome.content.parsed.type]

NoCall == [kind |-> "none", json |-> "none"]

\* safe_execute: the default on any exception.
safe_execute(raised, value, default_return) ==
  IF raised THEN default_return ELSE value

\* extract_json_from_response: the parsed value, or {} when nothing parses.
extract_json_from_response(response) ==
  IF response.parsed.type = "none" THEN JsonDict(EmptyDict)
  ELSE response.parsed

\* dict.get(key) is falsy: the key is absent, or its value is empty or null.
Falsy(d, key) == key \notin DOMAIN d \/ d[key] \in {"empty", "null"}

\* The list a field tag stands for.
ListOf(tag) ==
  CASE tag = "strings" -> <<"q">>
    [] tag = "nonstring" -> <<NullItem>>
    [] tag = "list" -> <<"item">>
    [] OTHER -> <<>>

\* ----------------------------------------------------------------- planner

UNSET == "<unset>"
ORACLE_REASONING == "oracle reasoning"

NoPlan == [reasoning |-> UNSET, search_queries |-> <<>>, expected_files |-> <<>>]

_create_fallback_plan(question) ==
  [reasoning |-> FALLBACK_REASONING,
   search_queries |-> <<question>>,
   expected_files |-> <<>>]

\* _generate_plan: raises when the oracle call raises or when the parsed
\* value is no dict (it has no .get); otherwise fills the falsy fields.
_generate_plan(outcome, question) ==
  LET r == invoke_text(outcome)
      v == extract_json_from_response(r.text)
  IN IF r.raised \/ v.type # "dict"
     THEN [raised |-> TRUE, plan |-> NoPlan]
     ELSE [raised |-> FALSE,
           plan |->
             [reasoning |-> IF Falsy(v.dict, "reasoning")
                            THEN DIRECT_REASONING ELSE ORACLE_REASONING,
              search_queries |-> IF Falsy(v.dict, "search_queries")
                                 THEN <<question>>
                                 ELSE ListOf(v.dict["search_queries"]),
              expected_files |-> IF Falsy(v.dict, "expected_files")
                                 THEN <<>>
                                 ELSE ListOf(v.dict["expected_files"])]]

\* The planner replies that are explored.
PlannerTexts ==
  {Text("not json", NotJson, "none"),
   Text("[1]", JsonOther(FALSE), "none"),
   Text("{}", JsonDict(EmptyDict), "none"),
   Text("{reasoning, search_queries, expected_files}",
        JsonDict([reasoning |-> "text", search_queries |-> "strings",
                  expected_files |-> "list"]), "none"),
   Text("{reasoning, search_queries: [null]}",
        JsonDict([reasoning |-> "text", search_queries |-> "nonstring"]),
        "none")}

planner_node(outcome) ==
  LET g == _generate_plan(outcome, QUESTION)
      p == safe_execute(g.raised, g.plan, _create_fallback_plan(QUESTION))
  IN /\ plan' = p
     /\ reasoning_trace' = Append(reasoning_trace, "Plan")
     /\ retrieval_iteration' = 0

PlannerStep ==
  /\ pc = "planner"
  /\ \E outcome \in OracleOutcome(PlannerTexts) :
       /\ planner_node(outcome)
       /\ last_outcome' = Called(outcome)
  /\ pc' = "retriever"
  /\ stage_log' = Append(stage_log, "planner")
  /\ UNCHANGED <<max_retrieval_iterations, retrieved_chunks, draft_answer,
                 citations, verification_result, final_answer, new_chunks>>
  /\ UNCHANGED <<storeVars, fnVars>>

\* --------------------------------------------------------------- retriever

\* What hybrid_search returns for the unique queries of one pass: for each
\* query a duplicate-free list of at most k chunk ids (merge_and_rerank keys
\* its results by chunk id).  Low: the first chunks of the corpus; High: the
\* last ones; the two full lists share chunks.
Low(n) == Run(1, n)
High(n) == Run(NumChunks - DEFAULT_MAX_CHUNKS_PER_QUERY + 1, n)

PassResults ==
  {<<Low(0)>>,
   <<Low(3)>>,
   <<Low(DEFAULT_MAX_CHUNKS_PER_QUERY)>>,
   <<High(DEFAULT_MAX_CHUNKS_PER_QUERY)>>,
   <<Low(DEFAULT_MAX_CHUNKS_PER_QUERY), High(DEFAULT_MAX_CHUNKS_PER_QUERY)>>,
   <<High(3), Low(3)>>}

\* The combined score of a chunk over all queries: "flat" gives every chunk
\* the same score, "by_id" scores a chunk by its id.
ScoreFns == {"flat", "by_id"}
ScoreOf(score, c) == IF score = "flat" THEN 0 ELSE c

\* list.sort(key=score, reverse=True): stable, highest score first.
RECURSIVE InsertByScore(_, _, _)
InsertByScore(sorted, c, score) ==
  IF sorted = <<>> THEN <<c>>
  ELSE IF ScoreOf(score, Head(sorted)) >= ScoreOf(score, c)
       THEN <<Head(sorted)>> \o InsertByScore(Tail(sorted), c, score)
       ELSE <<c>> \o sorted

RECURSIVE SortByScore(_, _)
SortByScore(s, score) ==
  IF s = <<>> THEN <<>>
  ELSE InsertByScore(SortByScore(SubSeq(s, 1, Len(s) - 1), score),
                     s[Len(s)], score)

\* A variant of the loop that does not look at the existing chunks.
RECURSIVE CollectNewKeepingKnown(_, _, _)
CollectNewKeepingKnown(found, existing_chunk_ids, all_results) ==
  IF found = <<>> THEN all_results
  ELSE LET c == Head(found)
       IN CollectNewKeepingKnown(Tail(found), existing_chunk_ids,
                                 IF c \in Range(all_results)
                                 THEN all_results
                                 ELSE Append(all_results, c))

\* The loop over the queries' results: a chunk is appended the first time
\* it is met, unless it is among the existing chunks.
RECURSIVE CollectNew(_, _, _)
CollectNew(found, existing_chunk_ids, all_results) ==
  IF found = <<>> THEN all_results
  ELSE LET c == Head(found)
       IN CollectNew(Tail(found), existing_chunk_ids,
                     IF c \in existing_chunk_ids \/ c \in Range(all_results)
                     THEN all_results
                     ELSE Append(all_results, c))

_retrieve_with_multi_query(query_results, existing_chunks, score) ==
  LET all_results ==
        CollectNew(Flatten(query_results), Range(existing_chunks), <<>>)
  IN IF Len(query_results) > 1 /\ all_results # <<>>
     THEN Take(SortByScore(all_results, score), DEFAULT_MAX_CITATIONS * 2)
     ELSE all_results

\* A variant that puts the new chunks first, so that the cut drops chunks
\* of earlier passes.
CombineChunksNewestFirst(existing_chunks, all_chunks) ==
  Take(all_chunks \o existing_chunks, DEFAULT_MAX_CITATIONS)

\* state.get('retrieved_chunks', []) + all_chunks, cut to MAX_CITATIONS
CombineChunks(existing_chunks, all_chunks) ==
  Take(existing_chunks \o all_chunks, DEFAULT_MAX_CITATIONS)

_get_queries_for_iteration(iteration) ==
  IF iteration = 1 THEN plan.search_queries
  ELSE IF verification_result.follow_up_queries = <<>>
       THEN <<QUESTION>>
       ELSE verification_result.follow_up_queries

\* generate_query_variations (question.strip()) and q.lower() raise on a
\* query that is no string.
QueriesRaise(base_queries) == NullItem \in Range(base_queries)

retriever_node(query_results, score) ==
  LET iteration == retrieval_iteration + 1
      all_chunks ==
        _retrieve_with_multi_query(query_results, retrieved_chunks, score)
  IN /\ retrieved_chunks' = CombineChunks(retrieved_chunks, all_chunks)
     /\ new_chunks' = Len(all_chunks)
     /\ retrieval_iteration' = iteration
     /\ reasoning_trace' = Append(reasoning_trace, "Iteration")

RetrieverStep ==
  /\ pc = "retriever"
  /\ ~QueriesRaise(_get_queries_for_iteration(retrieval_iteration + 1))
  /\ \E query_results \in PassResults, score \in ScoreFns :
       retriever_node(query_results, score)
  /\ pc' = "synthesizer"
  /\ stage_log' = Append(stage_log, "retriever")
  /\ last_outcome' = NoCall
  /\ UNCHANGED <<max_retrieval_iterations, plan, draft_answer, citations,
                 verification_result, final_answer>>
  /\ UNCHANGED <<storeVars, fnVars>>

\* The retriever raises out of the graph: agent.invoke fails.
RetrieverRaises ==
  /\ pc = "retriever"
  /\ QueriesRaise(_get_queries_for_iteration(retrieval_iteration + 1))
  /\ pc' = "failed"
  /\ stage_log' = Append(stage_log, "retriever")
  /\ last_outcome' = NoCall
  /\ UNCHANGED <<max_retrieval_iterations, plan, retrieved_chunks,
                 retrieval_iteration, draft_answer, citations,
                 verification_result, final_answer, reasoning_trace,
                 new_chunks>>
  /\ UNCHANGED <<storeVars, fnVars>>

\* ------------------------------------------------------------- synthesizer

Citation(chunk, snippet) == [chunk |-> chunk, text_snippet |-> snippet]

RECURSIVE CiteAll(_)
CiteAll(cited) ==
  IF cited = <<>> THEN <<>>
  ELSE <<Citation(Head(cited), "")>> \o CiteAll(Tail(cited))

\* CitationService.extract_citations_from_answer: the citations written in
\* the answer (here: of the first chunk); with none written and no file of
\* a chunk named, the top chunks.
extract_citations_from_answer(answer, retrieved) ==
  IF answer.cites = "explicit" THEN <<Citation(Head(retrieved), "")>>
  ELSE CiteAll(Take(retrieved, TopChunksCited))

SynthesizerTexts ==
  {Text("answer [file:1-2]", NotJson, "explicit"),
   Text("answer", NotJson, "none")}

\* The synthesizer with chunks.  The context packer decides the prompt and
\* the wording of the first trace entry only.
synthesizer_node(outcome) ==
  LET r == invoke_text(outcome)
      answer == safe_execute(r.raised, r.text,
                             Text(ERROR_GENERATING, NotJson, "none"))
  IN /\ draft_answer' = answer.raw
     /\ citations' = extract_citations_from_answer(answer, retrieved_chunks)
     /\ reasoning_trace' =
          reasoning_trace \o <<"Context optimization", "Generated answer">>

SynthesizerStep ==
  /\ pc = "synthesizer"
  /\ retrieved_chunks # <<>>
  /\ \E outcome \in OracleOutcome(SynthesizerTexts) :
       /\ synthesizer_node(outcome)
       /\ last_outcome' = Called(outcome)
  /\ pc' = "verifier"
  /\ stage_log' = Append(stage_log, "synthesizer")
  /\ UNCHANGED <<max_retrieval_iterations, plan, retrieved_chunks,
                 retrieval_iteration, verification_result, final_answer,
                 new_chunks>>
  /\ UNCHANGED <<storeVars, fnVars>>

\* A variant of the branch without chunks that ends the run at once.
SynthesizerNoChunksEnds ==
  /\ pc = "synthesizer"
  /\ retrieved_chunks = <<>>
  /\ draft_answer' = NO_CODE_MESSAGE
  /\ citations' = <<>>
  /\ pc' = "END"
  /\ stage_log' = Append(stage_log, "synthesizer")
  /\ last_outcome' = NoCall
  /\ UNCHANGED <<max_retrieval_iterations, plan, retrieved_chunks,
                 retrieval_iteration, verification_result, final_answer,
                 reasoning_trace, new_chunks>>
  /\ UNCHANGED <<storeVars, fnVars>>

\* The synthesizer without chunks: no oracle call, no trace entry.
SynthesizerNoChunks ==
  /\ pc = "synthesizer"
  /\ retrieved_chunks = <<>>
  /\ draft_answer' = NO_CODE_MESSAGE
  /\ citations' = <<>>
  /\ pc' = "verifier"
  /\ stage_log' = Append(stage_log, "synthesizer")
  /\ last_outcome' = NoCall
  /\ UNCHANGED <<max_retrieval_iterations, plan, retrieved_chunks,
                 retrieval_iteration, verification_result, final_answer,
                 reasoning_trace, new_chunks>>
  /\ UNCHANGED <<storeVars, fnVars>>

\* ---------------------------------------------------------------- verifier

Verification(g, u, m, f) ==
  [is_grounded |-> g, unsupported_claims |-> u,
   missing_information |-> m, follow_up_queries |-> f]

_create_fallback_verification == Verification(TRUE, <<>>, <<>>, <<>>)

\* _verify_answer: fills the keys that are absent.  On a value that is no
\* dict the first absent key raises (item assignment); a value in which
\* all four keys are found is returned as it is.  sized: len() of
\* unsupported_claims is defined; indexable: the value can be indexed by key.
_verify_answer(outcome) ==
  LET r == invoke_text(outcome)
      v == extract_json_from_response(r.text)
      d == v.dict
  IN IF r.raised \/ (v.type = "other" /\ ~v.has_keys)
     THEN [raised |-> TRUE, indexable |-> FALSE, sized |-> FALSE,
           verification |-> _create_fallback_verification]
     ELSE IF v.type = "other"
     THEN [raised |-> FALSE, indexable |-> FALSE, sized |-> FALSE,
           verification |-> _create_fallback_verification]
     ELSE [raised |-> FALSE, indexable |-> TRUE,
           sized |-> ("unsupported_claims" \notin DOMAIN d
                        \/ d["unsupported_claims"] # "null"),
           verification |->
             Verification(
               IF "is_grounded" \notin DOMAIN d THEN TRUE
               ELSE d["is_grounded"] = "true",
               IF "unsupported_claims" \notin DOMAIN d THEN <<>>
               ELSE ListOf(d["unsupported_claims"]),
               IF "missing_information" \notin DOMAIN d THEN <<>>
               ELSE ListOf(d["missing_information"]),
               IF "follow_up_queries" \notin DOMAIN d THEN <<>>
               ELSE ListOf(d["follow_up_queries"]))]

\* The verifier replies that are explored.
VerifierTexts ==
  {Text("not json", NotJson, "none"),
   Text("[1]", JsonOther(FALSE), "none"),
   Text("[is_grounded, unsupported_claims, missing_information, follow_up_queries]",
        JsonOther(TRUE), "none"),
   Text("{}", JsonDict(EmptyDict), "none"),
   Text("{is_grounded: true, follow_up_queries: [q]}",
        JsonDict([is_grounded |-> "true", follow_up_queries |-> "strings"]),
        "none"),
   Text("{is_grounded: false}", JsonDict([is_grounded |-> "false"]), "none"),
   Text("{is_grounded: false, follow_up_queries: []}",
        JsonDict([is_grounded |-> "false", follow_up_queries |-> "empty"]),
        "none"),
   Text("{is_grounded: false, unsupported_claims: [c], missing_information: [m], follow_up_queries: [q]}",
        JsonDict([is_grounded |-> "false", unsupported_claims |-> "list",
                  missing_information |-> "list",
                  follow_up_queries |-> "strings"]), "none"),
   Text("{is_grounded: false, unsupported_claims: null, follow_up_queries: [q]}",
        JsonDict([is_grounded |-> "false", unsupported_claims |-> "null",
                  follow_up_queries |-> "strings"]), "none"),
   Text("{is_grounded: false, follow_up_queries: [null]}",
        JsonDict([is_grounded |-> "false", follow_up_queries |-> "nonstring"]),
        "none")}

\* The node's own reads of the result, outside safe_execute:
\* verification['is_grounded'] and len(verification['unsupported_claims']).
VerifierRaisesOn(outcome) ==
  LET a == _verify_answer(outcome)
  IN ~a.raised /\ (~a.indexable \/ ~a.sized)

verifier_node(outcome) ==
  LET a == _verify_answer(outcome)
  IN /\ verification_result' =
          safe_execute(a.raised, a.verification, _create_fallback_verification)
     /\ reasoning_trace' = Append(reasoning_trace, "Verification")

\* A variant that compares the iteration with <=.
should_retrieve_more_inclusive(verification, iteration, max_iterations) ==
  IF ~verification.is_grounded
       /\ iteration <= max_iterations
       /\ verification.follow_up_queries # <<>>
  THEN "retrieve_more"
  ELSE "finalize"

\* A variant that stops one iteration early.
should_retrieve_more_early(verification, iteration, max_iterations) ==
  IF ~verification.is_grounded
       /\ iteration + 1 < max_iterations
       /\ verification.follow_up_queries # <<>>
  THEN "retrieve_more"
  ELSE "finalize"

\* should_retrieve_more, read on the state the verifier returned.
should_retrieve_more(verification, iteration, max_iterations) ==
  IF ~verification.is_grounded
       /\ iteration < max_iterations
       /\ verification.follow_up_queries # <<>>
  THEN "retrieve_more"
  ELSE "finalize"

\* A variant of the edge that sends a run that asks for more straight to
\* the synthesizer.
EdgeAfterVerifierPastRetriever(route) ==
  IF route = "retrieve_more" THEN "synthesizer" ELSE "finalizer"

\* The conditional edge of create_agent_graph.
EdgeAfterVerifier(route) ==
  IF route = "retrieve_more" THEN "retriever" ELSE "finalizer"

VerifierStep ==
  /\ pc = "verifier"
  /\ \E outcome \in OracleOutcome(VerifierTexts) :
       /\ ~VerifierRaisesOn(outcome)
       /\ verifier_node(outcome)
       /\ last_outcome' = Called(outcome)
  /\ pc' = EdgeAfterVerifier(
              should_retrieve_more(verification_result', retrieval_iteration,
                                   max_retrieval_iterations))
  /\ stage_log' = Append(stage_log, "verifier")
  /\ UNCHANGED <<max_retrieval_iterations, plan, retrieved_chunks,
                 retrieval_iteration, draft_answer, citations, final_answer,
                 new_chunks>>
  /\ UNCHANGED <<storeVars, fnVars>>

\* The verifier raises out of the graph: agent.invoke fails.
VerifierRaises ==
  /\ pc = "verifier"
  /\ \E outcome \in OracleOutcome(VerifierTexts) :
       /\ VerifierRaisesOn(outcome)
       /\ last_outcome' = Called(outcome)
  /\ pc' = "failed"
  /\ stage_log' = Append(stage_log, "verifier")
  /\ UNCHANGED <<max_retrieval_iterations, plan, retrieved_chunks,
                 retrieval_iteration, draft_answer, citations,
                 verification_result, final_answer, reasoning_trace,
                 new_chunks>>
  /\ UNCHANGED <<storeVars, fnVars>>

\* --------------------------------------------------------------- finalizer

RECURSIVE Enhance(_, _)
Enhance(cs, snippet) ==
  IF cs = <<>> THEN <<>>
  ELSE <<Citation(Head(cs).chunk, snippet)>> \o Enhance(Tail(cs), snippet)

NoAnswer == [text |-> UNSET, references |-> 0]

\* readable: open_span finds the cited files.
finalizer_node(readable) ==
  LET enhanced_citations ==
        Enhance(citations,
                IF readable THEN "snippet" ELSE SNIPPET_UNAVAILABLE)
  IN /\ citations' = enhanced_citations
     /\ final_answer' = [text |-> draft_answer,
                         references |-> Len(enhanced_citations)]
     /\ reasoning_trace' = Append(reasoning_trace, "Finalized")

FinalizerStep ==
  /\ pc = "finalizer"
  /\ \E readable \in BOOLEAN : finalizer_node(readable)
  /\ pc' = "END"
  /\ stage_log' = Append(stage_log, "finalizer")
  /\ last_outcome' = NoCall
  /\ UNCHANGED <<max_retrieval_iterations, plan, retrieved_chunks,
                 retrieval_iteration, draft_answer, verification_result,
                 new_chunks>>
  /\ UNCHANGED <<storeVars, fnVars>>

\* ------------------------------------------------------------ agent graph

\* AgentService.run_agent: the initial state handed to agent.invoke.
AgentStart(max_iterations) ==
  /\ pc = "planner"
  /\ max_retrieval_iterations = max_iterations
  /\ plan = NoPlan
  /\ retrieved_chunks = <<>>
  /\ retrieval_iteration = 0
  /\ draft_answer = UNSET
  /\ citations = <<>>
  /\ verification_result = _create_fallback_verification
  /\ final_answer = NoAnswer
  /\ reasoning_trace = <<>>
  /\ stage_log = <<>>
  /\ new_chunks = 0
  /\ last_outcome = NoCall

AgentInit == \E m \in 0..MaxIterationsSetting : AgentStart(m)

\* ------------------------------------------------------------ corpus store

REPO_ID == "repo"

\* The words of the chunk texts; a chunk text is one word.
Terms == {"alpha", "gamma", "delta"}

CodeChunk(id, text) == [chunk_id |-> id, chunk_text |-> text]

\* What load + filter_files + chunk_file make of the repository at the time
\* of an ingestion: a list of chunks with chunk ids repo:file:start:end.
\* The second list is the first after an edit (the text at a:1-2 changed,
\* file b is gone), the third has a new file only.
Snapshots ==
  {<<>>,
   <<CodeChunk("a:1:2", "alpha"), CodeChunk("b:1:2", "gamma")>>,
   <<CodeChunk("a:1:2", "delta")>>,
   <<CodeChunk("c:1:2", "alpha")>>}

MaxRowid(rowids) ==
  IF rowids = {} THEN 0 ELSE CHOOSE m \in rowids : \A x \in rowids : x <= m

\* INSERT OR REPLACE INTO chunks: the new row gets the rowid after the
\* largest one, and replaces the row that has its chunk_id.
InsertOrReplaceChunk(table, c, repo_id) ==
  {r \in table : r.chunk_id # c.chunk_id}
    \cup {[rowid |-> MaxRowid({r.rowid : r \in table}) + 1,
           chunk_id |-> c.chunk_id, repo_id |-> repo_id,
           chunk_text |-> c.chunk_text]}

RECURSIVE InsertChunks(_, _, _)
InsertChunks(table, cs, repo_id) ==
  IF cs = <<>> THEN table
  ELSE InsertChunks(InsertOrReplaceChunk(table, Head(cs), repo_id),
                    Tail(cs), repo_id)

\* INSERT OR REPLACE INTO chunks_fts (chunk_id, chunk_text): no rowid is
\* given, so the entry gets the rowid after the largest indexed one; the
\* entries made for an earlier row of the chunk stay.
InsertFts(fts, c) ==
  LET rowid == MaxRowid(fts.docsize) + 1
  IN [docsize |-> fts.docsize \cup {rowid},
      index |-> fts.index \cup {<<rowid, c.chunk_text>>}]

RECURSIVE InsertFtsAll(_, _)
InsertFtsAll(fts, cs) ==
  IF cs = <<>> THEN fts ELSE InsertFtsAll(InsertFts(fts, Head(cs)), Tail(cs))

\* MetadataStore.save_chunks: one transaction; nothing on an empty list.
save_chunks(cs, repo_id) ==
  LET fts == InsertFtsAll([docsize |-> chunks_fts_docsize,
                           index |-> chunks_fts], cs)
  IN /\ chunks' = InsertChunks(chunks, cs, repo_id)
     /\ chunks_fts' = fts.index
     /\ chunks_fts_docsize' = fts.docsize

\* MetadataStore.delete_repo: the FTS delete reads the rows of the content
\* table chunks, and removes for each row of the repository what is indexed
\* under its rowid for its present text.
delete_repo(repo_id) ==
  LET owned == {r \in chunks : r.repo_id = repo_id}
  IN /\ chunks_fts' = chunks_fts \ {<<r.rowid, r.chunk_text>> : r \in owned}
     /\ chunks_fts_docsize' = chunks_fts_docsize \ {r.rowid : r \in owned}
     /\ chunks' = chunks \ owned
     /\ repos' = repos \ {repo_id}

\* MetadataStore.get_repo_metadata
get_repo_metadata(repo_id) == repo_id \in repos

\* get_indexing_status and RepositoryService.get_repository_status: the
\* status is read off the repo row alone.
get_indexing_status(repo_id) ==
  IF get_repo_metadata(repo_id) THEN "completed" ELSE "not_found"

\* MetadataStore.search_chunks_lexical: the index entries that match give
\* rowids; the columns of a match are read from the chunks row with that
\* rowid, and the query fails when there is none.
search_chunks_lexical(repo_id, keyword) ==
  LET hits == {p[1] : p \in {q \in chunks_fts : q[2] = keyword}}
  IN [raised |-> \E h \in hits : \A r \in chunks : r.rowid # h,
      rows |-> {r \in chunks : r.rowid \in hits /\ r.repo_id = repo_id}]

\* VectorStore.add_chunks: get_or_create_collection, then collection.add,
\* which leaves the entry of an id that is already there as it is.
add_chunks(cs, repo_id) ==
  IF cs = <<>>
  THEN UNCHANGED <<collections, documents>>
  ELSE /\ collections' = collections \cup {repo_id}
       /\ documents' =
            documents \cup
              {[repo_id |-> repo_id, chunk_id |-> cs[i].chunk_id,
                chunk_text |-> cs[i].chunk_text] :
                 i \in {k \in 1..Len(cs) :
                          \A d \in documents :
                            d.repo_id = repo_id => d.chunk_id # cs[k].chunk_id}}

\* VectorStore.delete_collection: an exception of the client is printed.
delete_collection(repo_id, client_fails) ==
  IF client_fails \/ repo_id \notin collections
  THEN UNCHANGED <<collections, documents>>
  ELSE /\ collections' = collections \ {repo_id}
       /\ documents' = {d \in documents : d.repo_id # repo_id}

\* VectorStore.search: nothing without a collection.
vector_search(repo_id) ==
  IF repo_id \in collections
  THEN {d \in documents : d.repo_id = repo_id} ELSE {}

\* ---------------------------------------------- ingestion (index_repo_task)

IdleJob == [pc |-> "idle", all_chunks |-> <<>>, reingest |-> FALSE,
            solo |-> FALSE]

Active(j) == jobs[j].pc \in {"save_repo_metadata", "save_chunks", "add_chunks"}

\* Nothing else works on the store.
Quiet == deleter = "idle" /\ \A j \in 1..NumJobs : ~Active(j)

\* A request starts: the tasks at work are no longer alone.
Disturbed == [j \in 1..NumJobs |-> [jobs[j] EXCEPT !.solo = FALSE]]

\* POST /repos/index: the task loads the repository and chunks its files.
\* The tasks are numbered in the order of their requests.  reingest: the
\* repository is indexed already; solo: no other request is at work while
\* this one is, and none came after it.
IngestStart(j) ==
  /\ jobs[j].pc = "idle"
  /\ \A k \in 1..j - 1 : jobs[k].pc # "idle"
  /\ \E cs \in Snapshots :
       jobs' = [Disturbed EXCEPT
                  ![j] = [pc |-> "save_repo_metadata", all_chunks |-> cs,
                          reingest |-> get_repo_metadata(REPO_ID) /\ Quiet,
                          solo |-> Quiet]]
  /\ deleted' = FALSE
  /\ UNCHANGED <<repos, chunks, chunks_fts, chunks_fts_docsize, collections,
                 documents, deleter, deletes>>
  /\ UNCHANGED <<agentVars, fnVars>>

\* clone_repo / load_local_repo raises: the task prints the error.
LoadFails(j) ==
  /\ jobs[j].pc = "save_repo_metadata"
  /\ jobs' = [jobs EXCEPT ![j].pc = "failed"]
  /\ UNCHANGED <<repos, chunks, chunks_fts, chunks_fts_docsize, collections,
                 documents, deleter, deletes, deleted>>
  /\ UNCHANGED <<agentVars, fnVars>>

\* metadata_store.save_repo_metadata: INSERT OR REPLACE INTO repos
SaveRepoMetadata(j) ==
  /\ jobs[j].pc = "save_repo_metadata"
  /\ repos' = repos \cup {REPO_ID}
  /\ jobs' = [jobs EXCEPT ![j].pc = "save_chunks"]
  /\ UNCHANGED <<chunks, chunks_fts, chunks_fts_docsize, collections,
                 documents, deleter, deletes, deleted>>
  /\ UNCHANGED <<agentVars, fnVars>>

SaveChunks(j) ==
  /\ jobs[j].pc = "save_chunks"
  /\ save_chunks(jobs[j].all_chunks, REPO_ID)
  /\ jobs' = [jobs EXCEPT ![j].pc = "add_chunks"]
  /\ UNCHANGED <<repos, collections, documents, deleter, deletes, deleted>>
  /\ UNCHANGED <<agentVars, fnVars>>

AddChunks(j) ==
  /\ jobs[j].pc = "add_chunks"
  /\ add_chunks(jobs[j].all_chunks, REPO_ID)
  /\ jobs' = [jobs EXCEPT ![j].pc = "done"]
  /\ UNCHANGED <<repos, chunks, chunks_fts, chunks_fts_docsize, deleter,
                 deletes, deleted>>
  /\ UNCHANGED <<agentVars, fnVars>>

\* generate_embeddings or the vector client raises: the task prints it.
AddChunksFails(j) ==
  /\ jobs[j].pc = "add_chunks"
  /\ jobs[j].all_chunks # <<>>
  /\ jobs' = [jobs EXCEPT ![j].pc = "failed"]
  /\ UNCHANGED <<repos, chunks, chunks_fts, chunks_fts_docsize, collections,
                 documents, deleter, deletes, deleted>>
  /\ UNCHANGED <<agentVars, fnVars>>

\* --------------------------------------------- DELETE /repos/{repo_id}

\* validate_repository_exists
DeleteStart ==
  /\ deleter = "idle"
  /\ deletes < MaxDeletes
  /\ get_repo_metadata(REPO_ID)
  /\ deleter' = "delete_repo"
  /\ deletes' = deletes + 1
  /\ jobs' = Disturbed
  /\ UNCHANGED <<repos, chunks, chunks_fts, chunks_fts_docsize, collections,
                 documents, deleted>>
  /\ UNCHANGED <<agentVars, fnVars>>

\* RepositoryNotFoundError / 404
DeleteNotFound ==
  /\ deleter = "idle"
  /\ deletes < MaxDeletes
  /\ ~get_repo_metadata(REPO_ID)
  /\ deletes' = deletes + 1
  /\ UNCHANGED <<repos, chunks, chunks_fts, chunks_fts_docsize, collections,
                 documents, jobs, deleter, deleted>>
  /\ UNCHANGED <<agentVars, fnVars>>

DeleteMetadata ==
  /\ deleter = "delete_repo"
  /\ delete_repo(REPO_ID)
  /\ deleter' = "delete_collection"
  /\ UNCHANGED <<collections, documents, jobs, deletes, deleted>>
  /\ UNCHANGED <<agentVars, fnVars>>

\* vector_store.delete_collection, then the success message.
DeleteCollection ==
  /\ deleter = "delete_collection"
  /\ \E client_fails \in BOOLEAN : delete_collection(REPO_ID, client_fails)
  /\ deleter' = "idle"
  /\ deleted' = TRUE
  /\ UNCHANGED <<repos, chunks, chunks_fts, chunks_fts_docsize, jobs, deletes>>
  /\ UNCHANGED <<agentVars, fnVars>>

StoreInit ==
  /\ repos = {}
  /\ chunks = {}
  /\ chunks_fts = {}
  /\ chunks_fts_docsize = {}
  /\ collections = {}
  /\ documents = {}
  /\ jobs = [j \in 1..NumJobs |-> IdleJob]
  /\ deleter = "idle"
  /\ deletes = 0
  /\ deleted = FALSE

\* ------------------------------------------------ chunking (size strategy)

\* A line of a file is the number of its words, a text is its lines.
\* count_tokens without the tokenizer: int(len(text.split()) * 1.3)
RECURSIVE Words(_)
Words(text) == IF text = <<>> THEN 0 ELSE Head(text) + Words(Tail(text))

count_tokens(text) == (13 * Words(text)) \div 10

\* The chunk of file_path ([dir, name]) with the lines of chunk_text,
\* recorded as start_line..end_line; the id is built from the file's name.
\* merged stands for metadata['merged'], which only a merged chunk has.
SizeChunk(file_path, repo_id, start_line, end_line, chunk_text) ==
  [chunk_id |-> <<repo_id, file_path.name, start_line, end_line>>,
   file_path |-> file_path,
   start_line |-> start_line,
   end_line |-> end_line,
   chunk_text |-> chunk_text,
   merged |-> FALSE]

\* The overlap: lines of current_chunk from the last one backwards, as
\* long as their tokens stay within the overlap setting.
RECURSIVE OverlapLines(_, _, _, _, _)
OverlapLines(current_chunk, j, overlap_lines, overlap_tokens, overlap) ==
  IF j = 0 THEN [lines |-> overlap_lines, tokens |-> overlap_tokens]
  ELSE LET tokens == count_tokens(<<current_chunk[j]>>)
       IN IF overlap_tokens + tokens > overlap
          THEN [lines |-> overlap_lines, tokens |-> overlap_tokens]
          ELSE OverlapLines(current_chunk, j - 1,
                            <<current_chunk[j]>> \o overlap_lines,
                            overlap_tokens + tokens, overlap)

\* The start line recorded for the chunk that begins with the overlap.
NextStartLine(i, overlap_lines) == i - Len(overlap_lines) + 1

\* The loop of chunk_by_size over the lines i.. of the file.
RECURSIVE SizeLoop(_, _, _, _, _, _, _)
SizeLoop(lines, i, st, file_path, repo_id, chunk_size, overlap) ==
  IF i > Len(lines) THEN st
  ELSE
    LET line == lines[i]
        line_tokens == count_tokens(<<line>>)
    IN IF st.current_tokens + line_tokens > chunk_size /\ st.current_chunk # <<>>
       THEN LET kept == OverlapLines(st.current_chunk, Len(st.current_chunk),
                                     <<>>, 0, overlap)
            IN SizeLoop(lines, i + 1,
                 [chunks |-> Append(st.chunks,
                                SizeChunk(file_path, repo_id, st.start_line,
                                          i - 1, st.current_chunk)),
                  current_chunk |-> Append(kept.lines, line),
                  current_tokens |-> kept.tokens + line_tokens,
                  start_line |-> NextStartLine(i, kept.lines)],
                 file_path, repo_id, chunk_size, overlap)
       ELSE SizeLoop(lines, i + 1,
              [st EXCEPT !.current_chunk = Append(@, line),
                         !.current_tokens = @ + line_tokens],
              file_path, repo_id, chunk_size, overlap)

\* _merge_small_chunks: a chunk below the minimum is merged with the next
\* one when the two stay within 1.2 times the chunk size; the merged chunk
\* keeps the first id, and its text has an empty line between the two.
RECURSIVE MergeFrom(_, _, _, _)
MergeFrom(cs, i, merged, chunk_size) ==
  IF i > Len(cs) THEN merged
  ELSE
    LET current == cs[i]
        combined_text == current.chunk_text \o <<0>> \o cs[i + 1].chunk_text
    IN IF /\ count_tokens(current.chunk_text) < MIN_CHUNK_SIZE_TOKENS
          /\ i + 1 <= Len(cs)
          /\ 10 * count_tokens(combined_text) <= 12 * chunk_size
       THEN MergeFrom(cs, i + 2,
                      Append(merged, [current EXCEPT
                                        !.end_line = cs[i + 1].end_line,
                                        !.chunk_text = combined_text,
                                        !.merged = TRUE]),
                      chunk_size)
       ELSE MergeFrom(cs, i + 1, Append(merged, current), chunk_size)

_merge_small_chunks(cs, chunk_size) == MergeFrom(cs, 1, <<>>, chunk_size)

\* chunk_by_size: content.split('\n') gives one line at least.
chunk_by_size(lines, file_path, repo_id, chunk_size, overlap) ==
  LET st == SizeLoop(lines, 1,
                     [chunks |-> <<>>, current_chunk |-> <<>>,
                      current_tokens |-> 0, start_line |-> 1],
                     file_path, repo_id, chunk_size, overlap)
      all == IF st.current_chunk # <<>>
             THEN Append(st.chunks,
                         SizeChunk(file_path, repo_id, st.start_line,
                                   Len(lines), st.current_chunk))
             ELSE st.chunks
  IN _merge_small_chunks(all, chunk_size)

\* The settings.chunk_size values that are explored.
ChunkSizes == {60, 130}

\* The calls of chunk_by_size that are looked at: files of up to MaxLines
\* lines of 0, 10, 40 or 100 words.
ChunkCalls ==
  [fn : {"chunk_by_size"},
   content : UNION {[1..n -> {0, 10, 40, 100}] : n \in 1..MaxLines},
   file_path : {[dir |-> "pkg", name |-> "util.txt"]},
   chunk_size : ChunkSizes,
   chunk_overlap : {0, 15, 60}]

ChunkBySize ==
  /\ call.fn = "chunk_by_size"
  /\ returned = NotReturned
  /\ returned' = chunk_by_size(call.content, call.file_path, REPO_ID,
                               call.chunk_size, call.chunk_overlap)
  /\ UNCHANGED <<call, agentVars, storeVars>>

\* The chunk lists the merge pass is looked at for, as the AST strategy
\* hands them over: up to MaxDefinitions definitions of two lines each, one
\* after the other in the file, each a chunk of its own.
MergeCalls ==
  LET Texts == {<<5, 5>>, <<20, 20>>, <<50, 50>>, <<100, 0>>}
      file_path == [dir |-> "pkg", name |-> "util.txt"]
  IN  {[fn |-> "_merge_small_chunks",
        chunks |-> [i \in 1..Len(texts) |->
                      SizeChunk(file_path, REPO_ID, 2 * i - 1, 2 * i, texts[i])],
        chunk_size |-> chunk_size] :
         texts \in UNION {[1..n -> Texts] : n \in 1..MaxDefinitions},
         chunk_size \in ChunkSizes}

MergeSmallChunks ==
  /\ call.fn = "_merge_small_chunks"
  /\ returned = NotReturned
  /\ returned' = _merge_small_chunks(call.chunks, call.chunk_size)
  /\ UNCHANGED <<call, agentVars, storeVars>>

\* count_tokens applied to a text of one line.
CountTokens ==
  /\ call.fn = "count_tokens"
  /\ returned = NotReturned
  /\ returned' = <<count_tokens(call.text)>>
  /\ UNCHANGED <<call, agentVars, storeVars>>

\* -------------------------------- chunking the files of a repository

\* The files filter_files finds: one or two files, under some of three
\* paths, each with one of three contents.
Repositories ==
  LET Paths == {[dir |-> "pkg", name |-> "util.txt"],
                [dir |-> "lib", name |-> "util.txt"],
                [dir |-> "pkg", name |-> "main.txt"]}
      Files == [file_path : Paths, content : {<<10>>, <<40, 40>>, <<10, 100>>}]
  IN {<<f>> : f \in Files}
       \cup {p \in Files \X Files : p[1].file_path # p[2].file_path}

\* The loop of index_repository over the files: chunk_file falls back to
\* the size strategy; the chunks keep the path relative to the repository.
RECURSIVE ChunkFiles(_, _, _)
ChunkFiles(files, chunk_size, overlap) ==
  IF files = <<>> THEN <<>>
  ELSE chunk_by_size(Head(files).content, Head(files).file_path, REPO_ID,
                     chunk_size, overlap)
         \o ChunkFiles(Tail(files), chunk_size, overlap)

\* index_repository from "Chunk all files" to save_chunks.
ChunkAndSave ==
  /\ call.fn = "index_repository"
  /\ returned = NotReturned
  /\ LET all_chunks == ChunkFiles(call.files, call.chunk_size, call.chunk_overlap)
     IN /\ returned' = all_chunks
        /\ save_chunks(all_chunks, REPO_ID)
  /\ UNCHANGED <<call, agentVars, repos, collections, documents, jobs,
                 deleter, deletes, deleted>>

\* ------------------------------------------------------- context packer

\* A chunk handed to the packer: its text (lines as word counts), the
\* lines _identify_important_lines finds in it by their content (marked),
\* the combined score in tenths and the branches that found it.  The
\* chunks have no symbol name and no 'score', their files match no key,
\* test or doc pattern, and the question shares no word with them.
PackChunk(id, text, marked, combined_score, sources) ==
  [chunk_id |-> id, chunk_text |-> text, marked |-> marked,
   combined_score |-> combined_score, sources |-> sources,
   truncated |-> FALSE]

\* _calculate_priority_score, in tenths.
_calculate_priority_score(chunk) ==
  (IF chunk.combined_score > 0 THEN chunk.combined_score * 10 ELSE 0)
    + (IF Cardinality(chunk.sources) > 1 THEN 20 ELSE 0)

\* list.sort(reverse=True) by the priority score: stable.
RECURSIVE _prioritize_chunks(_)
_prioritize_chunks(cs) ==
  IF cs = <<>> THEN <<>>
  ELSE LET rest == _prioritize_chunks(Tail(cs))
           before == {i \in 1..Len(rest) :
                        _calculate_priority_score(rest[i])
                          > _calculate_priority_score(Head(cs))}
       IN SubSeq(rest, 1, Cardinality(before)) \o <<Head(cs)>>
            \o SubSeq(rest, Cardinality(before) + 1, Len(rest))

_get_chunk_token_count(chunk) == count_tokens(chunk.chunk_text)

RECURSIVE SumTokens(_)
SumTokens(cs) ==
  IF cs = <<>> THEN 0
  ELSE _get_chunk_token_count(Head(cs)) + SumTokens(Tail(cs))

\* The important lines (from 1), first and last line always among them.
_identify_important_lines(chunk) ==
  (chunk.marked \cap (1..Len(chunk.chunk_text))) \cup {1, Len(chunk.chunk_text)}

\* The increasing sequence of the numbers of a set.
RECURSIVE Sorted(_)
Sorted(S) ==
  IF S = {} THEN <<>>
  ELSE LET m == CHOOSE x \in S : \A y \in S : x <= y
       IN <<m>> \o Sorted(S \ {m})

\* The lines the second pass tries around an important line.
Around(idx, n) ==
  Sorted({i \in 1..n : idx - 2 <= i /\ i < idx})
    \o Sorted({i \in 1..n : idx < i /\ i <= idx + 2})

\* First and second pass: a line is added when it is new and fits.
RECURSIVE AddFitting(_, _, _, _)
AddFitting(lines, tried, acc, max_tokens) ==
  IF tried = <<>> THEN acc
  ELSE LET i == Head(tried)
           line_tokens == count_tokens(<<lines[i]>>)
       IN AddFitting(lines, Tail(tried),
            IF i \notin acc.added /\ acc.used + line_tokens <= max_tokens
            THEN [added |-> acc.added \cup {i}, used |-> acc.used + line_tokens]
            ELSE acc,
            max_tokens)

\* Third pass: the other lines in order, up to the first that does not fit.
RECURSIVE FillInOrder(_, _, _, _)
FillInOrder(lines, i, acc, max_tokens) ==
  IF i > Len(lines) THEN acc
  ELSE IF i \in acc.added THEN FillInOrder(lines, i + 1, acc, max_tokens)
  ELSE LET line_tokens == count_tokens(<<lines[i]>>)
       IN IF acc.used + line_tokens <= max_tokens
          THEN FillInOrder(lines, i + 1,
                 [added |-> acc.added \cup {i}, used |-> acc.used + line_tokens],
                 max_tokens)
          ELSE acc

\* _truncate_chunk_intelligently for a chunk with more than max_tokens.
_truncate_chunk_intelligently(chunk, max_tokens) ==
  LET lines == chunk.chunk_text
      important_lines == Sorted(_identify_important_lines(chunk))
      context == Flatten([k \in 1..Len(important_lines) |->
                            Around(important_lines[k], Len(lines))])
      first == AddFitting(lines, important_lines,
                          [added |-> {}, used |-> 0], max_tokens)
      second == AddFitting(lines, context, first, max_tokens)
      third == FillInOrder(lines, 1, second, max_tokens)
      kept == Sorted(third.added)
      truncated_text == [k \in 1..Len(kept) |-> lines[kept[k]]]
  IN [chunk EXCEPT
        !.chunk_text = IF Len(kept) < Len(lines)
                       THEN truncated_text \o <<MarkerWords>>
                       ELSE truncated_text,
        !.truncated = TRUE]

\* _select_and_truncate_chunks from the chunk i of the prioritized list.
RECURSIVE SelectFrom(_, _, _, _, _, _)
SelectFrom(cs, i, selected, used_tokens, available_tokens, min_tokens) ==
  IF i > Len(cs) THEN selected
  ELSE
    LET chunk_tokens == _get_chunk_token_count(cs[i])
        remaining_tokens == available_tokens - used_tokens
        truncated_chunk == _truncate_chunk_intelligently(cs[i], remaining_tokens)
        used == used_tokens + _get_chunk_token_count(truncated_chunk)
    IN IF used_tokens + chunk_tokens <= available_tokens
       THEN SelectFrom(cs, i + 1, Append(selected, cs[i]),
                       used_tokens + chunk_tokens, available_tokens, min_tokens)
       ELSE IF remaining_tokens < min_tokens THEN selected
       ELSE IF 100 * used >= 95 * available_tokens
            THEN Append(selected, truncated_chunk)
            ELSE SelectFrom(cs, i + 1, Append(selected, truncated_chunk),
                            used, available_tokens, min_tokens)

\* optimize_chunks_for_context; min_tokens is
\* MIN_CHUNK_TOKENS_AFTER_TRUNCATION, which core/constants.py does not give.
optimize_chunks_for_context(cs, max_context_tokens, reserve_prompt_tokens, reserve_response_tokens, min_tokens) ==
  LET available_tokens ==
        max_context_tokens - reserve_prompt_tokens - reserve_response_tokens
      prioritized_chunks == _prioritize_chunks(cs)
  IN IF cs = <<>> THEN cs
     ELSE IF SumTokens(prioritized_chunks) <= available_tokens
     THEN prioritized_chunks
     ELSE SelectFrom(prioritized_chunks, 1, <<>>, 0, available_tokens,
                     min_tokens)

\* The chunk lists the packer is looked at for: one or two chunks with
\* lines of 1 or 10 words.
PackInputs ==
  LET Texts == UNION {[1..n -> {1, 10}] : n \in 1..MaxPackLines}
      A == {PackChunk("A", t, m, s, {"vector", "lexical"}) :
              t \in Texts, m \in {{}, {2}}, s \in {0, 5}}
      B == {PackChunk("B", t, {}, 3, {"vector"}) : t \in Texts}
  IN {<<a>> : a \in A} \cup (B \X A)

OptimizeChunks ==
  /\ call.fn = "optimize_chunks_for_context"
  /\ returned = NotReturned
  /\ returned' = optimize_chunks_for_context(
                   call.chunks, call.max_context_tokens,
                   call.reserve_prompt_tokens, call.reserve_response_tokens,
                   call.min_tokens)
  /\ UNCHANGED <<call, agentVars, storeVars>>

\* ------------------------------------------- hybrid fusion and span dedup

\* Scores are integers: a vector similarity in hundredths, a lexical score
\* in tenths, a combined score in units of 0.00001.

\* A result of a search branch; file_path is the list of the path's parts.
Hit(id, file_path, start_line, end_line, score) ==
  [chunk_id |-> id, file_path |-> file_path, start_line |-> start_line,
   end_line |-> end_line, score |-> score]

\* score * VECTOR_SEARCH_WEIGHT + rank_boost of the i-th vector result
VectorContribution(vector_results, i) ==
  vector_results[i].score * 700
    + ((Len(vector_results) - (i - 1)) * 30000) \div Len(vector_results)

\* min(score / 10, 1) * LEXICAL_SEARCH_WEIGHT + rank_boost (factor 0.3 * 0.67)
LexicalContribution(lexical_results, i) ==
  (IF lexical_results[i].score >= 100 THEN 30000
   ELSE lexical_results[i].score * 300)
    + ((Len(lexical_results) - (i - 1)) * 20100) \div Len(lexical_results)

Entry(result, combined_score, sources) ==
  [chunk_id |-> result.chunk_id, file_path |-> result.file_path,
   start_line |-> result.start_line, end_line |-> result.end_line,
   combined_score |-> combined_score, sources |-> sources]

\* The position of chunk_id in chunk_map (insertion order), 0 if absent.
PositionOf(chunk_map, chunk_id) ==
  LET at == {p \in 1..Len(chunk_map) : chunk_map[p].chunk_id = chunk_id}
  IN IF at = {} THEN 0 ELSE CHOOSE p \in at : TRUE

\* chunk_map[chunk_id] = {...}: a new key goes last, an old one is replaced.
RECURSIVE AddVector(_, _, _)
AddVector(chunk_map, vector_results, i) ==
  IF i > Len(vector_results) THEN chunk_map
  ELSE LET e == Entry(vector_results[i],
                      VectorContribution(vector_results, i), <<"vector">>)
           p == PositionOf(chunk_map, e.chunk_id)
       IN AddVector(IF p = 0 THEN Append(chunk_map, e)
                    ELSE [chunk_map EXCEPT ![p] = e],
                    vector_results, i + 1)

\* The lexical loop without the co-occurrence branch.
RECURSIVE AddLexicalOverwriting(_, _, _)
AddLexicalOverwriting(chunk_map, lexical_results, i) ==
  IF i > Len(lexical_results) THEN chunk_map
  ELSE LET e == Entry(lexical_results[i],
                      LexicalContribution(lexical_results, i), <<"lexical">>)
           p == PositionOf(chunk_map, e.chunk_id)
       IN AddLexicalOverwriting(IF p = 0 THEN Append(chunk_map, e)
                                ELSE [chunk_map EXCEPT ![p] = e],
                                lexical_results, i + 1)

\* The lexical loop: a chunk that is in chunk_map gets the contribution
\* and 0.3 on top, and 'lexical' appended to its sources.
RECURSIVE AddLexical(_, _, _)
AddLexical(chunk_map, lexical_results, i) ==
  IF i > Len(lexical_results) THEN chunk_map
  ELSE LET contribution == LexicalContribution(lexical_results, i)
           p == PositionOf(chunk_map, lexical_results[i].chunk_id)
       IN AddLexical(
            IF p = 0
            THEN Append(chunk_map,
                        Entry(lexical_results[i], contribution, <<"lexical">>))
            ELSE [chunk_map EXCEPT
                    ![p].combined_score = @ + contribution + 30000,
                    ![p].sources = Append(@, "lexical")],
            lexical_results, i + 1)

\* _calculate_path_depth
_calculate_path_depth(file_path) == Len(file_path) - 1

\* The reranking without keywords and question: the path depth boost.
Rerank(result) ==
  IF result.file_path # <<>> /\ _calculate_path_depth(result.file_path) <= 3
  THEN [result EXCEPT !.combined_score =
          @ + (3 - _calculate_path_depth(result.file_path)) * 5000]
  ELSE result

\* results.sort(key=combined_score, reverse=True): stable.
RECURSIVE SortByCombined(_)
SortByCombined(results) ==
  IF results = <<>> THEN <<>>
  ELSE LET rest == SortByCombined(Tail(results))
           before == {i \in 1..Len(rest) :
                        rest[i].combined_score > Head(results).combined_score}
       IN SubSeq(rest, 1, Cardinality(before)) \o <<Head(results)>>
            \o SubSeq(rest, Cardinality(before) + 1, Len(rest))

\* Any overlap of the two spans.
OverlapsAtAll(result, existing) ==
  /\ result.start_line <= existing.end_line
  /\ existing.start_line <= result.end_line

\* overlap_size / span_size > OVERLAP_THRESHOLD, for a span_size > 0
OverlapsSpan(result, existing) ==
  LET overlap_start == IF result.start_line >= existing.start_line
                       THEN result.start_line ELSE existing.start_line
      overlap_end == IF result.end_line <= existing.end_line
                     THEN result.end_line ELSE existing.end_line
      overlap_size == IF overlap_end - overlap_start > 0
                      THEN overlap_end - overlap_start ELSE 0
      span_size == result.end_line - result.start_line
  IN span_size > 0 /\ 2 * overlap_size > span_size

\* deduplicate_by_file_span from the result i, with its default max_chunks.
RECURSIVE DedupFrom(_, _, _)
DedupFrom(results, i, kept) ==
  IF i > Len(results) THEN kept
  ELSE
    LET result == results[i]
        overlaps == \E p \in 1..Len(kept) :
                      /\ kept[p].file_path = result.file_path
                      /\ OverlapsSpan(result, kept[p])
        now == IF result.file_path = <<>> \/ ~overlaps
               THEN Append(kept, result) ELSE kept
    IN IF result.file_path # <<>> /\ Len(now) >= DEDUP_MAX_CHUNKS
       THEN now
       ELSE DedupFrom(results, i + 1, now)

deduplicate_by_file_span(results) == DedupFrom(results, 1, <<>>)

\* merge_and_rerank without query_keywords.  The value is the returned
\* list, after chunk_map before the reranking and the sorted list that
\* goes into the span dedup.
merge_and_rerank(vector_results, lexical_results, k) ==
  LET chunk_map == AddLexical(AddVector(<<>>, vector_results, 1),
                              lexical_results, 1)
      sorted == SortByCombined([p \in 1..Len(chunk_map) |-> Rerank(chunk_map[p])])
  IN <<chunk_map, sorted, Take(deduplicate_by_file_span(sorted), k)>>

\* The result lists that are looked at: up to MaxHits hits per branch out
\* of four chunks, three of them in one file; a chunk is once in the vector
\* list, and may be twice in the lexical list (one search per keyword).
FusionCalls ==
  LET Chunk == {<<"c1", <<"auth.py">>, 10, 20>>, <<"c2", <<"auth.py">>, 12, 22>>,
                <<"c3", <<"auth.py">>, 18, 30>>,
                <<"c4", <<"pkg", "sub", "user.py">>, 5, 15>>}
      Hits(scores) == {Hit(c[1], c[2], c[3], c[4], s) : c \in Chunk, s \in scores}
      Lists(hits) == UNION {[1..n -> hits] : n \in 0..MaxHits}
      Distinct(l) == \A i, j \in 1..Len(l) : i # j => l[i].chunk_id # l[j].chunk_id
  IN [fn : {"merge_and_rerank"},
      vector_results : {l \in Lists(Hits({-90, 90})) : Distinct(l)},
      lexical_results : Lists(Hits({50})),
      k : 1..3]

MergeAndRerank ==
  /\ call.fn = "merge_and_rerank"
  /\ returned = NotReturned
  /\ returned' = merge_and_rerank(call.vector_results, call.lexical_results,
                                  call.k)
  /\ UNCHANGED <<call, agentVars, storeVars>>

\* ------------------------------------------------------ citation extractor
\* A text is a sequence of one-character strings.

\* [a-zA-Z0-9_/\\\.-], over the characters the drawn texts are written in
PathChars == {"a", "p", "y", "1", "2", "/", ".", "-"}

\* (?:py|js|ts|...), the alternatives the drawn paths end in
file_extensions == {<<"p", "y">>}

\* the character at index j, "$" past the end of the text
After(text, j) == IF j >= 1 /\ j <= Len(text) THEN text[j] ELSE "$"

\* \d+ and [...]+ : the index of the last character of the longest run of
\* characters of chars from i (i - 1 when there is none)
RECURSIVE CharRun(_, _, _)
CharRun(text, i, chars) ==
  IF After(text, i) \in chars THEN CharRun(text, i + 1, chars) ELSE i - 1

\* int(match[1]) of a run of digits
RECURSIVE ToInt(_)
ToInt(digits) ==
  IF digits = <<>> THEN 0
  ELSE 10 * ToInt(SubSeq(digits, 1, Len(digits) - 1))
       + (IF digits[Len(digits)] = "1" THEN 1 ELSE 2)

\* :(\d+)(?:-(\d+))? from index i, with one of closers right after it
MatchLines(text, i, closers) ==
  LET d1 == CharRun(text, i + 1, {"1", "2"})
      d2 == CharRun(text, d1 + 2, {"1", "2"})
  IN  IF After(text, i) # ":" \/ d1 < i + 1 THEN [matched |-> FALSE]
      ELSE IF After(text, d1 + 1) = "-" /\ d2 >= d1 + 2
              /\ After(text, d2 + 1) \in closers
        THEN [matched |-> TRUE, start |-> SubSeq(text, i + 1, d1),
              end |-> SubSeq(text, d1 + 2, d2), last |-> d2]
      ELSE IF After(text, d1 + 1) \in closers
        THEN [matched |-> TRUE, start |-> SubSeq(text, i + 1, d1),
              end |-> <<>>, last |-> d1]
      ELSE [matched |-> FALSE]

\* pattern1 \[([^\]]+?):(\d+)(?:-(\d+))?\] and pattern2 with ( and ), at i:
\* the shortest path without the closing character that lets the rest match
MatchDelimited(text, i, open, close) ==
  LET Fits(j) == /\ \A n \in (i + 1)..j : text[n] # close
                 /\ MatchLines(text, j + 1, {close}).matched
      ends == {j \in (i + 1)..Len(text) : Fits(j)}
  IN  IF text[i] # open \/ ends = {} THEN [matched |-> FALSE]
      ELSE LET j == CHOOSE e \in ends : \A o \in ends : e <= o
               m == MatchLines(text, j + 1, {close})
           IN  [matched |-> TRUE, path |-> SubSeq(text, i + 1, j),
                start |-> m.start, end |-> m.end, last |-> m.last + 1]

\* pattern3 ([a-zA-Z0-9_/\\\.-]+\.(?:ext)):(\d+)(?:-(\d+))?(?=\s|$|,|\.|;|\)) at i
MatchBare(text, i) ==
  LET j == CharRun(text, i, PathChars)
      m == MatchLines(text, j + 1, {" ", "$", ",", ".", ";", ")"})
      HasExtension ==
        \E ext \in file_extensions :
          /\ j - Len(ext) - 1 >= i
          /\ text[j - Len(ext)] = "."
          /\ SubSeq(text, j - Len(ext) + 1, j) = ext
  IN  IF j >= i /\ HasExtension /\ m.matched
        THEN [matched |-> TRUE, path |-> SubSeq(text, i, j),
              start |-> m.start, end |-> m.end, last |-> m.last]
      ELSE [matched |-> FALSE]

\* re.findall: the matches from left to right, none overlapping another
RECURSIVE findall(_, _, _)
findall(pattern, text, i) ==
  IF i > Len(text) THEN <<>>
  ELSE LET m == CASE pattern = "pattern1" ->
                        MatchDelimited(text, i, "[", "]")
                   [] pattern = "pattern2" ->
                        MatchDelimited(text, i, "(", ")")
                   [] pattern = "pattern3" -> MatchBare(text, i)
       IN  IF m.matched THEN <<m>> \o findall(pattern, text, m.last + 1)
           ELSE findall(pattern, text, i + 1)

\* str.strip()
RECURSIVE strip(_)
strip(s) ==
  IF s # <<>> /\ s[1] = " " THEN strip(Tail(s))
  ELSE IF s # <<>> /\ s[Len(s)] = " " THEN strip(SubSeq(s, 1, Len(s) - 1))
  ELSE s

\* the matches of one pattern in turn: a match whose key (file_path,
\* start_line) is in seen_keys, the keys of the citations so far, is skipped
RECURSIVE AppendMatches(_, _, _)
AppendMatches(matches, i, cited) ==
  IF i > Len(matches) THEN cited
  ELSE LET file_path == strip(matches[i].path)
           start_line == ToInt(matches[i].start)
           end_line == IF matches[i].end # <<>> THEN ToInt(matches[i].end)
                       ELSE start_line
           seen == \E c \in Range(cited) :
                     c.file_path = file_path /\ c.start_line = start_line
       IN  IF seen THEN AppendMatches(matches, i + 1, cited)
           ELSE AppendMatches(matches, i + 1,
                  Append(cited,
                         [file_path |-> file_path, start_line |-> start_line,
                          end_line |-> end_line, text_snippet |-> ""]))

_extract_with_pattern(text, pattern, cited) ==
  AppendMatches(findall(pattern, text, 1), 1, cited)

extract_citations(answer_text) ==
  _extract_with_pattern(answer_text, "pattern3",
    _extract_with_pattern(answer_text, "pattern2",
      _extract_with_pattern(answer_text, "pattern1", <<>>)))

\* a citation as the wire formats write it
Written(c) ==
  LET lines == <<":">> \o c.start
               \o (IF c.end = <<>> THEN <<>> ELSE <<"-">> \o c.end)
  IN  CASE c.format = "pattern1" -> <<"[">> \o c.path \o lines \o <<"]">>
        [] c.format = "pattern2" -> <<"(">> \o c.path \o lines \o <<")">>
        [] c.format = "pattern3" -> c.path \o lines

\* the written citations, one space between two of them
RECURSIVE WrittenAll(_)
WrittenAll(cs) ==
  IF cs = <<>> THEN <<>>
  ELSE IF Len(cs) = 1 THEN Written(cs[1])
  ELSE Written(cs[1]) \o <<" ">> \o WrittenAll(Tail(cs))

\* the answers drawn: up to MaxCitations citations in the wire formats
CitationCalls ==
  LET Paths == {<<"a", ".", "p", "y">>, <<"a", "/", "a", ".", "p", "y">>,
                <<"a", "@", "a", ".", "p", "y">>}
      Cs == [format : {"pattern1", "pattern2", "pattern3"}, path : Paths,
             start : {<<"1">>, <<"1", "2">>}, end : {<<>>, <<"2">>}]
  IN  {[fn |-> "extract_citations", citations |-> cs,
        answer_text |-> WrittenAll(cs)] :
         cs \in UNION {[1..n -> Cs] : n \in 1..MaxCitations}}

ExtractCitations ==
  /\ call.fn = "extract_citations"
  /\ returned = NotReturned
  /\ returned' = extract_citations(call.answer_text)
  /\ UNCHANGED <<agentVars, storeVars, call>>

\* ---------------------------------------------------------- specifications

\* One agent run over a store at rest.
Init == AgentInit /\ StoreInit /\ FnIdle

Next ==
  \/ PlannerStep
  \/ RetrieverStep
  \/ RetrieverRaises
  \/ SynthesizerStep
  \/ SynthesizerNoChunks
  \/ VerifierStep
  \/ VerifierRaises
  \/ FinalizerStep

Spec == Init /\ [][Next]_vars

\* Ingestion and delete requests for one repository id, no agent run.
StoreSpecInit == AgentStart(MaxIterationsSetting) /\ StoreInit /\ FnIdle

StoreNext ==
  \/ \E j \in 1..NumJobs : IngestStart(j)
  \/ \E j \in 1..NumJobs : LoadFails(j)
  \/ \E j \in 1..NumJobs : SaveRepoMetadata(j)
  \/ \E j \in 1..NumJobs : SaveChunks(j)
  \/ \E j \in 1..NumJobs : AddChunks(j)
  \/ \E j \in 1..NumJobs : AddChunksFails(j)
  \/ DeleteStart
  \/ DeleteNotFound
  \/ DeleteMetadata
  \/ DeleteCollection

StoreSpec == StoreSpecInit /\ [][StoreNext]_vars

\* A function of the chunker applied to one drawn input, no agent run and
\* the store at rest.
ChunkSpecInit ==
  /\ AgentStart(MaxIterationsSetting) /\ StoreInit
  /\ call \in ChunkCalls \cup MergeCalls
               \cup [fn : {"count_tokens"}, text : [1..1 -> 0..MaxWords]]
  /\ returned = NotReturned

ChunkNext == ChunkBySize \/ MergeSmallChunks \/ CountTokens

ChunkSpec == ChunkSpecInit /\ [][ChunkNext]_vars

\* The files of one repository chunked and saved into an empty store.
IndexSpecInit ==
  /\ AgentStart(MaxIterationsSetting) /\ StoreInit
  /\ call \in [fn : {"index_repository"}, files : Repositories,
               chunk_size : ChunkSizes, chunk_overlap : {15}]
  /\ returned = NotReturned

IndexSpec == IndexSpecInit /\ [][ChunkAndSave]_vars

\* optimize_chunks_for_context applied to one chunk list.
PackSpecInit ==
  /\ AgentStart(MaxIterationsSetting) /\ StoreInit
  /\ call \in [fn : {"optimize_chunks_for_context"}, chunks : PackInputs,
               max_context_tokens : {20, 30, 45},
               reserve_prompt_tokens : {10}, reserve_response_tokens : {5},
               min_tokens : {1, 10}]
  /\ returned = NotReturned

PackSpec == PackSpecInit /\ [][OptimizeChunks]_vars

\* merge_and_rerank applied to the result lists of the two branches.
FusionSpecInit ==
  /\ AgentStart(MaxIterationsSetting) /\ StoreInit
  /\ call \in FusionCalls /\ returned = NotReturned

FusionSpec == FusionSpecInit /\ [][MergeAndRerank]_vars

\* extract_citations applied to one drawn answer
CiteSpecInit ==
  /\ AgentStart(MaxIterationsSetting) /\ StoreInit
  /\ call \in CitationCalls /\ returned = NotReturned

CiteSpec == CiteSpecInit /\ [][ExtractCitations]_vars

\* ============================================================ properties

\* How often a node ran, and the node that ran last.
Count(log, stage) == Cardinality({i \in 1..Len(log) : log[i] = stage})
LastStage == IF stage_log = <<>> THEN "START" ELSE stage_log[Len(stage_log)]

\* The verification record sends the loop back: ungrounded, with follow-ups.
AsksForMore(v) == ~v.is_grounded /\ Len(v.follow_up_queries) > 0

\* C1: for every sequence of oracle outputs and retrieval results a run
\* reaches the Finalizer and END (agent.invoke never fails on the way), and
\* the Verifier is invoked at most max_retrieval_iterations + 1 times.
C1_RunReachesFinalizer ==
  /\ pc # "failed"
  /\ Count(stage_log, "verifier") <= max_retrieval_iterations + 1
  /\ (pc = "END" => LastStage = "finalizer")

\* C1, the failing run: the verifier node raises on a reply whose
\* unsupported_claims is null, before any Finalizer step.
C1_VerifierRaisesBeforeFinalizer ==
  /\ pc = "failed"
  /\ LastStage = "verifier"
  /\ last_outcome = [kind |-> "ok", json |-> "dict"]
  /\ Count(stage_log, "finalizer") = 0

C3_ExactlyThreeCycles ==
  max_retrieval_iterations = 3 =>
    /\ Count(stage_log, "retriever") <= 3
    /\ Count(stage_log, "verifier") <= 3
    /\ (pc = "finalizer" /\ AsksForMore(verification_result)) =>
         /\ Count(stage_log, "retriever") = 3
         /\ Count(stage_log, "verifier") = 3

\* C3, the case: the Finalizer is entered on a reply that asks for more,
\* after 3 Retriever passes and 3 Verifier invocations.
C3_FinalizerAfterThreeCycles ==
  /\ max_retrieval_iterations = 3
  /\ pc = "finalizer"
  /\ AsksForMore(verification_result)
  /\ Count(stage_log, "retriever") = 3
  /\ Count(stage_log, "verifier") = 3

\* C4: every step keeps the chunk ids that retrieved_chunks holds, and
\* retrieved_chunks never holds more than MAX_CITATIONS chunks.
C4_ChunksGrowBounded ==
  [][/\ Range(retrieved_chunks) \subseteq Range(retrieved_chunks')
     /\ Len(retrieved_chunks') <= DEFAULT_MAX_CITATIONS]_vars

\* C4, the case: a second pass found new chunks and the list is full.
C4_SecondPassAtTheCap ==
  /\ LastStage = "retriever"
  /\ retrieval_iteration = 2
  /\ new_chunks > 0
  /\ Len(retrieved_chunks) = DEFAULT_MAX_CITATIONS

C6_FallbackPlanOnNonJson ==
  (LastStage = "planner" /\ last_outcome = [kind |-> "ok", json |-> "none"])
    => /\ plan = _create_fallback_plan(QUESTION)
       /\ retrieval_iteration = 0

\* C6, the failing run: the reply "not json" leaves the plan with the
\* reasoning of a direct search.
C6_DirectPlanOnNonJson ==
  /\ LastStage = "planner"
  /\ last_outcome = [kind |-> "ok", json |-> "none"]
  /\ plan.reasoning = DIRECT_REASONING
  /\ plan.search_queries = <<QUESTION>>
  /\ plan.expected_files = <<>>
  /\ retrieval_iteration = 0

\* C7: when the verifier oracle's output does not parse to a JSON object,
\* or the oracle call raises, the verification record is grounded with
\* empty lists and the next stage is the Finalizer.
C7_VerifierFailsOpen ==
  (LastStage = "verifier"
     /\ (last_outcome.json # "dict" \/ last_outcome.kind = "bad_payload"))
    => /\ verification_result = _create_fallback_verification
       /\ pc = "finalizer"

\* C7, the failing run: a reply that is a JSON list makes the node raise.
C7_VerifierRaisesOnList ==
  /\ LastStage = "verifier"
  /\ last_outcome = [kind |-> "ok", json |-> "other"]
  /\ pc = "failed"

\* C8: when the synthesizer's oracle call fails with a timeout or an HTTP
\* error while chunks are present, the draft is "Error generating answer".
C8_ErrorDraftOnOracleFailure ==
  (LastStage = "synthesizer"
     /\ last_outcome.kind \in {"http_error", "timeout"})
    => draft_answer = ERROR_GENERATING

\* C8, the failing run: the draft is the error text of the chat backend.
C8_BackendErrorTextAsDraft ==
  /\ LastStage = "synthesizer"
  /\ last_outcome.kind \in {"http_error", "timeout"}
  /\ retrieved_chunks # <<>>
  /\ draft_answer = HF_ERROR_TEXT

\* What the store holds for a repository, as chunks.
StoredChunks(repo_id) ==
  {CodeChunk(r.chunk_id, r.chunk_text) : r \in {x \in chunks : x.repo_id = repo_id}}

StoredDocuments(repo_id) ==
  {CodeChunk(d.chunk_id, d.chunk_text) : d \in vector_search(repo_id)}

\* C9: after a delete of the repository id reported success (and before a
\* later ingestion request), get_repo returns nothing, a lexical search
\* returns no result for any term, no chunk row and no FTS entry remains,
\* and the vector collection of the repository does not exist; also with
\* an ingestion under way or a failing vector delete.
C9_DeleteCascades ==
  deleted =>
    /\ ~get_repo_metadata(REPO_ID)
    /\ \A t \in Terms :
         LET found == search_chunks_lexical(REPO_ID, t)
         IN found.raised \/ found.rows = {}
    /\ StoredChunks(REPO_ID) = {}
    /\ chunks_fts = {}
    /\ chunks_fts_docsize = {}
    /\ REPO_ID \notin collections

\* C9, the failing run: the delete reported success with no ingestion at
\* work, and the collection with its entries is still there.
C9_CollectionSurvivesDelete ==
  /\ deleted
  /\ Quiet
  /\ \A j \in 1..NumJobs : jobs[j].solo = FALSE
  /\ REPO_ID \in collections
  /\ StoredDocuments(REPO_ID) # {}

\* C10: after a successful re-ingestion of an indexed repository id (no
\* other request at work or after it), the chunk rows, the FTS entries and
\* the vector entries of the repository are exactly the chunks of the new
\* ingestion, and a lexical search finds no other chunk.
C10_ReingestionReplaces ==
  \A j \in 1..NumJobs :
    (jobs[j].pc = "done" /\ jobs[j].reingest /\ jobs[j].solo) =>
      LET produced == Range(jobs[j].all_chunks)
      IN /\ StoredChunks(REPO_ID) = produced
         /\ chunks_fts = {<<r.rowid, r.chunk_text>> : r \in chunks}
         /\ StoredDocuments(REPO_ID) = produced
         /\ \A t \in Terms :
              LET found == search_chunks_lexical(REPO_ID, t)
              IN /\ ~found.raised
                 /\ \A r \in found.rows :
                      CodeChunk(r.chunk_id, r.chunk_text) \in produced

\* C10, the failing run: a chunk that only the earlier ingestion produced
\* is still a row of chunks and an entry of the collection.
C10_OldChunkSurvives ==
  \E j \in 1..NumJobs :
    /\ jobs[j].pc = "done" /\ jobs[j].reingest /\ jobs[j].solo
    /\ \E c \in StoredChunks(REPO_ID) \cap StoredDocuments(REPO_ID) :
         \A i \in 1..Len(jobs[j].all_chunks) :
           jobs[j].all_chunks[i].chunk_id # c.chunk_id

\* The store holds the corpus cs for the repository, and nothing else of it.
HoldsCorpus(repo_id, cs) ==
  /\ get_repo_metadata(repo_id)
  /\ StoredChunks(repo_id) = Range(cs)
  /\ chunks_fts = {<<r.rowid, r.chunk_text>> : r \in chunks}
  /\ StoredDocuments(repo_id) = Range(cs)

\* The store holds nothing of the repository.
HoldsNothing(repo_id) ==
  /\ ~get_repo_metadata(repo_id)
  /\ StoredChunks(repo_id) = {}
  /\ chunks_fts = {}
  /\ StoredDocuments(repo_id) = {}

\* C11: when the first ingestion of the repository id fails at any step
\* (no other request at work or after it), the store holds for the id
\* either the complete new corpus (repo row, chunk rows, FTS entries,
\* vectors) or what was there before the ingestion began, which is nothing.
C11_FailedIngestionIsAtomic ==
  (jobs[1].pc = "failed" /\ jobs[1].solo) =>
    \/ HoldsCorpus(REPO_ID, jobs[1].all_chunks)
    \/ HoldsNothing(REPO_ID)

\* C11, the failing run: the embedding or the vector add raised after
\* save_chunks; the repo row and the chunk rows are there, no vector is.
C11_ChunkRowsWithoutVectors ==
  /\ jobs[1].pc = "failed" /\ jobs[1].solo
  /\ get_repo_metadata(REPO_ID)
  /\ StoredChunks(REPO_ID) = Range(jobs[1].all_chunks)
  /\ StoredChunks(REPO_ID) # {}
  /\ StoredDocuments(REPO_ID) = {}

\* C12: at most one ingestion job of the repository id is running at any
\* time, so the store writes of two jobs (save_repo_metadata, save_chunks,
\* vector add) are never interleaved.
C12_OneIngestionAtATime ==
  Cardinality({j \in 1..NumJobs : Active(j)}) <= 1

\* C12, the failing run: two jobs ran to the end with no delete; the chunk
\* row of a:1:2 is the second job's, which no order of two whole jobs
\* leaves together with a vector entry of the second job's text and the
\* first job's entry for b:1:2 (the second save_chunks and vector add ran
\* between the first job's save_chunks and vector add).
C12_WritesInterleaved ==
  /\ jobs[1].pc = "done" /\ jobs[2].pc = "done"
  /\ deletes = 0
  /\ jobs[1].all_chunks = <<CodeChunk("a:1:2", "alpha"), CodeChunk("b:1:2", "gamma")>>
  /\ jobs[2].all_chunks = <<CodeChunk("a:1:2", "delta")>>
  /\ StoredChunks(REPO_ID) = {CodeChunk("a:1:2", "delta"), CodeChunk("b:1:2", "gamma")}
  /\ StoredDocuments(REPO_ID) = StoredChunks(REPO_ID)

\* The line numbers a list of chunks records.
RecordedLines(cs) ==
  UNION {cs[i].start_line..cs[i].end_line : i \in 1..Len(cs)}

\* C13: every chunk returned by chunk_by_size (merge post-pass included),
\* for any content, chunk_size and chunk_overlap, has
\* 1 <= start_line <= end_line <= number of lines of the file, and the
\* first chunk starts at line 1.
C13_LineRangesValid ==
  (call.fn = "chunk_by_size" /\ returned # NotReturned) =>
    /\ \A i \in 1..Len(returned) :
         /\ 1 <= returned[i].start_line
         /\ returned[i].start_line <= returned[i].end_line
         /\ returned[i].end_line <= Len(call.content)
    /\ returned # <<>> => returned[1].start_line = 1

\* C13, the failing run: two lines that each fill a chunk and are longer
\* than the overlap; the second chunk is recorded as lines 3..2 of a file
\* of 2 lines.
C13_StartPastEndOfFile ==
  /\ call.fn = "chunk_by_size" /\ returned # NotReturned
  /\ Len(call.content) = 2
  /\ Len(returned) = 2
  /\ returned[2].start_line = 3
  /\ returned[2].end_line = 2
  /\ returned[2].chunk_text = <<call.content[2]>>

\* C14: the recorded [start_line, end_line] ranges of the chunks returned
\* by chunk_by_size contain every line number from 1 to the file's line
\* count.
C14_RangesCoverFile ==
  (call.fn = "chunk_by_size" /\ returned # NotReturned) =>
    1..Len(call.content) \subseteq RecordedLines(returned)

\* C14, the failing run: every chunk has a valid range, and line 2, which
\* is in the text of the second chunk, is in no recorded range.
C14_LineInNoRange ==
  /\ call.fn = "chunk_by_size" /\ returned # NotReturned
  /\ \A i \in 1..Len(returned) :
       1 <= returned[i].start_line /\ returned[i].start_line <= returned[i].end_line
  /\ Len(returned) = 2
  /\ returned[2].chunk_text = SubSeq(call.content, 2, Len(call.content))
  /\ 2 \notin RecordedLines(returned)

\* C15: an ingestion never produces two chunks with the same chunk_id, so
\* save_chunks, an upsert by chunk_id, keeps a row for every chunk of the
\* ingestion.
C15_ChunkIdsUnique ==
  (call.fn = "index_repository" /\ returned # NotReturned) =>
    /\ \A i, j \in 1..Len(returned) :
         i # j => returned[i].chunk_id # returned[j].chunk_id
    /\ \A i \in 1..Len(returned) :
         CodeChunk(returned[i].chunk_id, returned[i].chunk_text)
           \in StoredChunks(REPO_ID)

\* C15, the failing run: util.txt under pkg and under lib give chunks with
\* one chunk_id and different texts; the row of the first is overwritten.
C15_SameIdInTwoFiles ==
  /\ call.fn = "index_repository" /\ returned # NotReturned
  /\ \E i, j \in 1..Len(returned) :
       /\ i < j
       /\ returned[i].chunk_id = returned[j].chunk_id
       /\ returned[i].file_path.dir = "pkg" /\ returned[j].file_path.dir = "lib"
       /\ returned[i].chunk_text # returned[j].chunk_text
       /\ CodeChunk(returned[i].chunk_id, returned[i].chunk_text)
            \notin StoredChunks(REPO_ID)
  /\ Cardinality(chunks) < Len(returned)

AvailableTokens ==
  call.max_context_tokens - call.reserve_prompt_tokens
    - call.reserve_response_tokens

\* C16: the token counts of the chunk texts returned by
\* optimize_chunks_for_context, truncated chunks counted with their final
\* text and the truncation marker, sum to at most
\* context_window - reserve_prompt - reserve_response.
C16_PackedWithinBudget ==
  (call.fn = "optimize_chunks_for_context" /\ returned # NotReturned) =>
    SumTokens(returned) <= AvailableTokens

\* C16, the failing run: one chunk that was truncated to lines that fill
\* the budget, and the marker on top of them goes over it.
C16_MarkerOverBudget ==
  /\ call.fn = "optimize_chunks_for_context" /\ returned # NotReturned
  /\ Len(call.chunks) = 1 /\ Len(returned) = 1
  /\ returned[1].truncated
  /\ returned[1].chunk_text[Len(returned[1].chunk_text)] = MarkerWords
  /\ Len(returned[1].chunk_text) <= Len(call.chunks[1].chunk_text)
  /\ SumTokens(returned) > AvailableTokens

\* A call of merge_and_rerank has returned.
Merged == call.fn = "merge_and_rerank" /\ returned # NotReturned

Ids(results) == {results[i].chunk_id : i \in 1..Len(results)}

\* The places of a chunk id in a result list.
Places(results, chunk_id) ==
  {i \in 1..Len(results) : results[i].chunk_id = chunk_id}

\* The contributions of the lexical hits at the places S.
RECURSIVE LexicalSum(_, _)
LexicalSum(lexical_results, S) ==
  IF S = {} THEN 0
  ELSE LET i == CHOOSE x \in S : TRUE
       IN LexicalContribution(lexical_results, i)
            + LexicalSum(lexical_results, S \ {i})

\* C17: the fused map (before the span dedup and the k cap) holds exactly
\* one entry per distinct chunk id of the two lists, and an entry whose
\* chunk id is in the vector list and in the lexical list has the sources
\* vector and lexical, and the 0.3 co-occurrence bonus on top of the
\* contributions of its hits.
C17_FusedOncePerChunk ==
  Merged =>
    LET fused == returned[1]
        both == Ids(call.vector_results) \cap Ids(call.lexical_results)
    IN /\ Ids(fused) = Ids(call.vector_results) \cup Ids(call.lexical_results)
       /\ \A p, q \in 1..Len(fused) :
            p # q => fused[p].chunk_id # fused[q].chunk_id
       /\ \A p \in 1..Len(fused) :
            fused[p].chunk_id \in both =>
              /\ Range(fused[p].sources) = {"vector", "lexical"}
              /\ fused[p].combined_score
                   - VectorContribution(
                       call.vector_results,
                       CHOOSE i \in Places(call.vector_results,
                                           fused[p].chunk_id) : TRUE)
                   - LexicalSum(call.lexical_results,
                                Places(call.lexical_results, fused[p].chunk_id))
                   >= 30000

\* C17, the case: three chunks, one of them found by both branches.
C17_ChunkInBothBranches ==
  /\ Merged
  /\ Len(returned[1]) = 3
  /\ Len(call.vector_results) = 2 /\ Len(call.lexical_results) = 2
  /\ \E p \in 1..3 :
       /\ returned[1][p].chunk_id
            \in Ids(call.vector_results) \cap Ids(call.lexical_results)
       /\ returned[1][p].sources = <<"vector", "lexical">>

\* C18: the fused combined score (before the reranking) of a chunk that
\* is in both lists is greater than its vector contribution alone and
\* greater than its lexical contribution alone, for every similarity
\* 1 - cosine distance and every negated FTS rank.
C18_FusedAboveEachBranch ==
  Merged =>
    \A p \in 1..Len(returned[1]) :
      LET e == returned[1][p]
      IN (e.chunk_id \in Ids(call.vector_results) \cap Ids(call.lexical_results)) =>
           /\ \A i \in Places(call.vector_results, e.chunk_id) :
                e.combined_score > VectorContribution(call.vector_results, i)
           /\ \A j \in Places(call.lexical_results, e.chunk_id) :
                e.combined_score > LexicalContribution(call.lexical_results, j)

\* C18, the failing run: a chunk with the similarity -0.9 (cosine distance
\* 1.9) that the lexical branch found as well scores below what the
\* lexical hit alone gives.
C18_BelowLexicalAlone ==
  /\ Merged
  /\ Len(call.vector_results) = 1 /\ Len(call.lexical_results) = 1
  /\ call.vector_results[1].score = -90
  /\ call.vector_results[1].chunk_id = call.lexical_results[1].chunk_id
  /\ Len(returned[1]) = 1
  /\ returned[1][1].sources = <<"vector", "lexical">>
  /\ returned[1][1].combined_score < LexicalContribution(call.lexical_results, 1)

\* A kept chunk of the same file overlaps more than half of c's span
\* (a span of n lines counting n - 1, as the code measures it).
OverlapsMoreThanHalf(c, kept) ==
  LET from == IF c.start_line >= kept.start_line THEN c.start_line
              ELSE kept.start_line
      to == IF c.end_line <= kept.end_line THEN c.end_line ELSE kept.end_line
  IN /\ c.file_path = kept.file_path
     /\ to > from
     /\ 2 * (to - from) > c.end_line - c.start_line

\* The places of the sorted list that the span dedup keeps.
IsKeptSet(sorted, K) ==
  \A i \in 1..Len(sorted) :
    i \in K <=> ~\E j \in K : j < i /\ OverlapsMoreThanHalf(sorted[i], sorted[j])

PassOf(c) ==
  CASE c.format = "pattern1" -> 1 [] c.format = "pattern2" -> 2
    [] c.format = "pattern3" -> 3

\* the written citation that is matched before the other one
MatchedBefore(cs, i, j) ==
  \/ PassOf(cs[i]) < PassOf(cs[j])
  \/ PassOf(cs[i]) = PassOf(cs[j]) /\ i <= j

\* one citation per distinct (path, start) of the written ones, each with
\* the written path, start and end of the first one matched
ExpectedCitations(cs) ==
  {[file_path |-> cs[i].path, start_line |-> ToInt(cs[i].start),
    end_line |-> IF cs[i].end = <<>> THEN ToInt(cs[i].start)
                 ELSE ToInt(cs[i].end),
    text_snippet |-> ""] :
     i \in {n \in 1..Len(cs) :
              \A m \in 1..Len(cs) :
                (cs[m].path = cs[n].path /\ cs[m].start = cs[n].start)
                  => MatchedBefore(cs, n, m)}}

\* C20: for an answer made of citations in the wire formats, extract_citations
\* returns exactly one citation per distinct (path, start), with the written
\* path, start and end (end = start when no end is written), the first match
\* winning when the same (path, start) is written more than once.
C20_CitationsRoundTrip ==
  (call.fn = "extract_citations" /\ returned # NotReturned) =>
    /\ Range(returned) = ExpectedCitations(call.citations)
    /\ Len(returned) = Cardinality(ExpectedCitations(call.citations))

\* C20, the case: one citation written in parentheses, its path holding a
\* character that is not a path character of the bare format, comes back as
\* two citations, the second to a path that was never written.
C20_PhantomCitation ==
  /\ call.fn = "extract_citations" /\ returned # NotReturned
  /\ Len(call.citations) = 1
  /\ call.citations[1].format = "pattern2"
  /\ Len(returned) = 2
  /\ returned[1].file_path = call.citations[1].path
  /\ returned[2].file_path # call.citations[1].path

\* C21: the reasoning trace is append-only, and every stage that runs and
\* hands its state on (planner, each retriever pass, each synthesizer step,
\* each verifier step, finalizer) appends at least one entry to it, on the
\* path without chunks and on the paths of a failed oracle call too.
C21_EveryStageAppends ==
  [][(stage_log' # stage_log /\ pc' # "failed") =>
       /\ Len(reasoning_trace') > Len(reasoning_trace)
       /\ SubSeq(reasoning_trace', 1, Len(reasoning_trace)) = reasoning_trace]_vars

\* C21, the case: the synthesizer has run on an empty chunk list and the
\* trace still ends with the entry of the retriever pass.
C21_SynthesizerLeftNoEntry ==
  /\ stage_log = <<"planner", "retriever", "synthesizer">>
  /\ retrieved_chunks = <<>>
  /\ draft_answer = NO_CODE_MESSAGE
  /\ reasoning_trace = <<"Plan", "Iteration">>

\* C22: after any sequence of save_chunks and delete_repo, the chunk table
\* and the FTS index are in sync: every chunk row is indexed exactly once,
\* under its present text, and every index entry belongs to a chunk row.
C22_ChunksAndFtsInSync ==
  /\ \A r \in chunks :
       {p \in chunks_fts : p[1] = r.rowid} = {<<r.rowid, r.chunk_text>>}
  /\ \A p \in chunks_fts : \E r \in chunks : r.rowid = p[1]
  /\ chunks_fts_docsize = {r.rowid : r \in chunks}

\* C22, the case: a chunk id was saved twice; the chunk has one row, the
\* index still holds the entry made for the row it replaced, and a lexical
\* search for the old text fails on it.
C22_StaleIndexEntry ==
  /\ \E r \in chunks :
       /\ r.chunk_id = "a:1:2" /\ r.chunk_text = "delta"
       /\ <<r.rowid, "delta">> \in chunks_fts
       /\ \E p \in chunks_fts :
            p[2] = "alpha" /\ p[1] < r.rowid /\ \A q \in chunks : q.rowid # p[1]
  /\ search_chunks_lexical(REPO_ID, "alpha").raised

\* C23: every chunk returned by the chunker has at most 1.5 times the
\* target chunk size in tokens, whatever the file holds, very long single
\* lines included.
C23_ChunkWithinOneAndAHalf ==
  (call.fn = "chunk_by_size" /\ returned # NotReturned) =>
    \A i \in 1..Len(returned) :
      10 * count_tokens(returned[i].chunk_text) <= 15 * call.chunk_size

\* C23, the case: a file of one line that alone has more than 1.5 times the
\* chunk size comes back as one chunk holding the whole line.
C23_LongLineInOneChunk ==
  /\ call.fn = "chunk_by_size" /\ returned # NotReturned
  /\ Len(call.content) = 1
  /\ 10 * count_tokens(call.content) > 15 * call.chunk_size
  /\ Len(returned) = 1
  /\ returned[1].chunk_text = call.content

\* C24: the stages of a run execute in the order planner, then cycles of
\* retriever, synthesizer, verifier, then finalizer, then END: the
\* synthesizer only directly after a retriever pass, the verifier only
\* directly after a synthesizer step, the planner and the finalizer once
\* each in a run that ends, and retrieval_iteration is the number of
\* retriever passes made so far (read for the stages that return a state).
C24_StagesInGraphOrder ==
  /\ stage_log # <<>> => stage_log[1] = "planner"
  /\ \A i \in 1..(Len(stage_log) - 1) :
       <<stage_log[i], stage_log[i + 1]>> \in
         {<<"planner", "retriever">>, <<"retriever", "synthesizer">>,
          <<"synthesizer", "verifier">>, <<"verifier", "retriever">>,
          <<"verifier", "finalizer">>}
  /\ Count(stage_log, "planner") <= 1
  /\ Count(stage_log, "finalizer") <= 1
  /\ pc = "END" =>
       /\ LastStage = "finalizer"
       /\ Count(stage_log, "planner") = 1
       /\ Count(stage_log, "retriever") >= 1
       /\ Count(stage_log, "retriever") = Count(stage_log, "verifier")
  /\ pc # "failed" => retrieval_iteration = Count(stage_log, "retriever")

\* C24, the case: a run that ended after two cycles.
C24_EndedAfterTwoCycles ==
  /\ pc = "END"
  /\ stage_log = <<"planner", "retriever", "synthesizer", "verifier",
                   "retriever", "synthesizer", "verifier", "finalizer">>
  /\ retrieval_iteration = 2

\* C25: after every retriever pass retrieved_chunks holds no chunk id
\* twice, and the list before the pass is a prefix of the list after it:
\* chunks found earlier keep their place, chunks found again are ignored.
C25_ChunksAppendedOnce ==
  [][/\ \A i, j \in 1..Len(retrieved_chunks') :
          retrieved_chunks'[i] = retrieved_chunks'[j] => i = j
     /\ Len(retrieved_chunks) <= Len(retrieved_chunks')
     /\ SubSeq(retrieved_chunks', 1, Len(retrieved_chunks)) = retrieved_chunks]_vars

\* C25, the case: the second pass found the chunks of the first pass again
\* together with new ones; the first twelve are those of the first pass,
\* in place, and the new ones follow up to the cap.
C25_FoundAgainIgnored ==
  /\ LastStage = "retriever"
  /\ retrieval_iteration = 2
  /\ new_chunks = NumChunks - DEFAULT_MAX_CHUNKS_PER_QUERY
  /\ retrieved_chunks = Run(1, DEFAULT_MAX_CITATIONS)

\* C26: after the merge pass no two adjacent chunks are left of which the
\* first has fewer than 50 tokens and which together stay within 1.2 times
\* the chunk size; every merged chunk spans from the start line of its
\* first chunk to the end line of its second chunk and is marked merged,
\* and every other chunk is a chunk of the input.
C26_NoMergeablePairLeft ==
  (call.fn = "_merge_small_chunks" /\ returned # NotReturned) =>
    /\ \A i \in 1..(Len(returned) - 1) :
         ~ /\ count_tokens(returned[i].chunk_text) < MIN_CHUNK_SIZE_TOKENS
           /\ 10 * count_tokens(returned[i].chunk_text \o <<0>>
                                  \o returned[i + 1].chunk_text)
                <= 12 * call.chunk_size
    /\ \A i \in 1..Len(returned) :
         IF returned[i].merged
         THEN \E n \in 1..(Len(call.chunks) - 1) :
                /\ returned[i].start_line = call.chunks[n].start_line
                /\ returned[i].end_line = call.chunks[n + 1].end_line
         ELSE returned[i] \in Range(call.chunks)

\* C26, the case: of three small chunks in a row the first two are merged,
\* the merged chunk is still below 50 tokens, and the third chunk stays
\* next to it although the two would fit together.
C26_SmallPairLeft ==
  /\ call.fn = "_merge_small_chunks" /\ returned # NotReturned
  /\ Len(call.chunks) = 3
  /\ Len(returned) = 2
  /\ returned[1].merged
  /\ count_tokens(returned[1].chunk_text) < MIN_CHUNK_SIZE_TOKENS
  /\ returned[2] = call.chunks[3]
  /\ 10 * count_tokens(returned[1].chunk_text \o <<0>> \o returned[2].chunk_text)
       <= 12 * call.chunk_size

\* C27: the text of every chunk the chunker returns is the lines
\* start_line..end_line of the file, in order (the size strategy captures
\* no leading comment block), and the start and end line fields of its
\* chunk_id are its start_line and end_line.
C27_TextIsTheRecordedLines ==
  (call.fn = "chunk_by_size" /\ returned # NotReturned) =>
    \A i \in 1..Len(returned) :
      /\ 1 <= returned[i].start_line
      /\ returned[i].end_line <= Len(call.content)
      /\ returned[i].chunk_text =
           SubSeq(call.content, returned[i].start_line, returned[i].end_line)
      /\ returned[i].chunk_id[3] = returned[i].start_line
      /\ returned[i].chunk_id[4] = returned[i].end_line

\* C27, the case: a chunk that begins with an overlap line is recorded as
\* starting one line after the first line of its text.
C27_TextStartsBeforeStartLine ==
  /\ call.fn = "chunk_by_size" /\ returned # NotReturned
  /\ \E i \in 1..Len(returned) :
       /\ ~returned[i].merged
       /\ 1 < returned[i].start_line
       /\ returned[i].start_line <= returned[i].end_line
       /\ returned[i].chunk_text =
            SubSeq(call.content, returned[i].start_line - 1,
                   returned[i].end_line)
       /\ returned[i].chunk_id[3] = returned[i].start_line

\* C28: without the tokenizer count_tokens(text) is 1.3 times the number w
\* of whitespace-separated words of text, rounded up, for every w >= 0:
\* 2 for one word, 3 for two words.
C28_FallbackRoundsUp ==
  (call.fn = "count_tokens" /\ returned # NotReturned) =>
    returned[1] = (13 * Words(call.text) + 9) \div 10

\* C28, the case: a text of one word is counted as one token.
C28_OneWordOneToken ==
  /\ call.fn = "count_tokens" /\ returned # NotReturned
  /\ call.text = <<1>>
  /\ returned[1] = 1

\* C29: the status of the repository id is 'completed' only when an
\* ingestion of the id has written all its chunks to the metadata store and
\* to the vector index; it is not 'completed' while the only ingestion is
\* still running or after it failed part-way.
C29_CompletedOnlyWhenIndexed ==
  get_indexing_status(REPO_ID) = "completed" =>
    \E j \in 1..NumJobs : jobs[j].pc = "done"

\* C29, the case: the first ingestion has saved the repo row and none of
\* its chunks yet, no other request was made, and the status is 'completed'.
C29_CompletedWhileSaving ==
  /\ jobs[1].pc = "save_chunks"
  /\ jobs[1].all_chunks # <<>>
  /\ \A j \in 2..NumJobs : jobs[j].pc = "idle"
  /\ deletes = 0
  /\ StoredChunks(REPO_ID) = {}
  /\ StoredDocuments(REPO_ID) = {}
  /\ get_indexing_status(REPO_ID) = "completed"

\* C30: in every fused result the sources hold each of the tags vector and
\* lexical at most once, and a chunk that only the lexical branch found,
\* by several keyword searches too, has the sources <<lexical>> and no
\* co-occurrence bonus on top of the contributions of its hits.
C30_SourcesNameBranchesOnce ==
  Merged =>
    \A p \in 1..Len(returned[1]) :
      LET e == returned[1][p]
      IN /\ \A m, n \in 1..Len(e.sources) : e.sources[m] = e.sources[n] => m = n
         /\ e.chunk_id \notin Ids(call.vector_results) =>
              /\ e.sources = <<"lexical">>
              /\ e.combined_score
                   <= LexicalSum(call.lexical_results,
                                 Places(call.lexical_results, e.chunk_id))

\* C30, the case: a chunk that two keyword searches returned and the vector
\* search did not has the tag lexical twice and the bonus of 0.3.
C30_LexicalCountedAsTwoBranches ==
  /\ Merged
  /\ \E p \in 1..Len(returned[1]) :
       LET e == returned[1][p]
       IN /\ e.chunk_id \notin Ids(call.vector_results)
          /\ Cardinality(Places(call.lexical_results, e.chunk_id)) = 2
          /\ e.sources = <<"lexical", "lexical">>
          /\ e.combined_score
               = LexicalSum(call.lexical_results,
                            Places(call.lexical_results, e.chunk_id)) + 30000

====
